---- MODULE Spec2Model ----
(***************************************************************************)
(* A model of the AMQP 0-9-1 client engine under                           *)
(* src/python_related/amqpstorm: connection handshake, channel id          *)
(* allocation, RPC correlation, socket error propagation and the heartbeat *)
(* monitor.  Python objects that are shared by reference (the exception    *)
(* lists, the Channel objects) are kept in small heaps indexed by object   *)
(* id, so that aliasing and rebinding are visible to the checks.           *)
(***************************************************************************)
EXTENDS Integers, Sequences, FiniteSets, TLC

\* ------------------------------------------------------------------ bounds
\* max_allowed_channels as negotiated in the handshake (2047 by default).
MaxChannels == 3
\* Channel objects constructed by Connection.channel() in one run.
MaxObjs == 4
\* Connection.open() calls in one run (each one creates a fresh list).
MaxOpens == 2
\* Frames in flight from the server to the client.
MaxInflight == 2
\* Cap of the heartbeat activity counters.
MaxCount == 1
\* Entries kept in one exception list.
MaxErrs == 1
\* rpc_request calls per caller thread in one run.
MaxCalls == 2
\* Largest body size a content header announces, and largest body piece.
MaxBody == 2
\* Frames kept in one Channel's inbound list.
MaxInbound == 2
\* Consumer tags the server hands out.
MaxTags == 1
\* write_frame / write_frames calls of one thread.
MaxWrites == 1
\* Bytes of a published body.
MaxPublish == 5
\* The frame limit Basic._max_frame_size.
MaxFrame == 2
\* Frames the server sends to the reader task.
MaxStream == 4
\* Frames the server sends when their routing is observed.
MaxRouted == 2
\* The largest body_size a ContentHeader of the server announces.
MaxSize == 3

\* --------------------------------------------------------------- variables
VARIABLES
    connState,      \* Connection._state
    excLists,       \* heap of exception list objects: list id -> Seq
    connExc,        \* list id bound to Connection._exceptions
    hbExc,          \* list id bound to Heartbeat._exceptions (-1: None)
    channels,       \* Connection._channels: channel id -> object id (0: absent)
    lastChannelId,  \* Connection._last_channel_id (0: None)
    connLock,       \* holder of Connection.lock (0: free)
    chanId,         \* per Channel object: _channel_id
    chanState,      \* per Channel object: _state
    chanExc,        \* per Channel object: _exceptions
    chanBuf,        \* per Channel object: _inbound (frames) and consumer tags
    rpcRequest,     \* per Channel object: Rpc._request, frame name -> uuid (0: no key)
    rpcResponse,    \* per Channel object: Rpc._response, uuid -> list (present: key exists)
    rpcLock,        \* per Channel object: holder of Rpc._lock (0: free)
    sockState,      \* IO.socket: "none", "up" (connected) or "down" (peer gone)
    ioRunning,      \* IO._running
    netIn,          \* frames sent by the server, not yet read by the reader task
    srvTodo,        \* frames written to the socket the server has not answered
    hbRunning,      \* Heartbeat._running
    hbReads,        \* Heartbeat._reads_since_check
    hbWrites,       \* Heartbeat._writes_since_check
    hbThreshold,    \* Heartbeat._threshold
    hbTimer,        \* a timer is scheduled
    hbPc,           \* position of the timer thread inside _check_for_life_signs
    thr,            \* per caller thread: position and locals
    opens,          \* number of Connection.open() calls so far
    wr,             \* IO._wr_lock, the bytes given to the socket, each write_to_socket call
    rd,             \* IO.data_in and the bytes the socket still has to deliver
    call,           \* the arguments, locals and result of one call of the library
    hist            \* history record read only by the properties

vars == << connState, excLists, connExc, hbExc, channels, lastChannelId, connLock,
           chanId, chanState, chanExc, chanBuf, rpcRequest, rpcResponse, rpcLock,
           sockState, ioRunning, netIn, srvTodo,
           hbRunning, hbReads, hbWrites, hbThreshold, hbTimer, hbPc,
           thr, opens, wr, rd, call, hist >>

connVars == << connState, excLists, connExc, hbExc, opens >>
mapVars  == << channels, lastChannelId, connLock >>
chanVars == << chanId, chanState, chanExc, chanBuf >>
rpcVars  == << rpcRequest, rpcResponse, rpcLock >>
ioVars   == << sockState, ioRunning, netIn, srvTodo >>
hbVars   == << hbRunning, hbReads, hbWrites, hbThreshold, hbTimer, hbPc >>
wireVars == << wr, rd, call >>

\* The application's calls are made from one thread; the reader task and the
\* heartbeat timer are threads of their own, with their own actions.
Threads  == {1}
ChanIds  == 1 .. MaxChannels
Objs     == 1 .. Len(chanId)

\* The list object created by Stateful.__init__ and handed to IO.__init__
\* (connection.py line 55); IO and Poller keep this reference for good.
ioExc == 0

\* ------------------------------------------------------------------ errors
ConnErr(msg) == [type |-> "AMQPConnectionError", msg |-> msg]
ChanErr(msg) == [type |-> "AMQPChannelError", msg |-> msg]
MsgErr(msg) == [type |-> "AMQPMessageError", msg |-> msg]
\* No error raised.
NoErr == [type |-> "none", msg |-> ""]

\* list.append on a heap list.  Only emptiness and the first entry of an
\* exception list are ever read (connection.py 140, 147; channel.py 195-196),
\* so the model keeps the first MaxErrs entries.
ListAppend(lists, id, e) ==
    IF Len(lists[id]) < MaxErrs THEN [lists EXCEPT ![id] = Append(@, e)] ELSE lists

\* A variant that registers nothing.
RegisterNothing(n) == n

\* heartbeat.py 33-41: register_read / register_write, counter += 1.  The
\* counters are only compared with 0 (heartbeat.py 83, 90); the model stops
\* counting at MaxCount.
Register(n) == IF n < MaxCount THEN n + 1 ELSE n

\* channel.py 48 and BaseChannel.__init__: no inbound frame, no consumer tag.
NoBuf == [inbound |-> << >>, tags |-> {}]

\* channel.py 164-165, 326 and 459-461: the buffers of every Channel
\* emptied.
ClearedAll(buf, o) == [x \in DOMAIN buf |-> NoBuf]

\* channel.py 164-165, 326 and 459-461: the inbound frames dropped and
\* every consumer tag removed.
Cleared(buf, o) == [buf EXCEPT ![o] = NoBuf]

\* A caller thread between two calls.
IdleThr == [pc |-> "idle", obj |-> 0, ids |-> {}, uuid |-> 0, frame |-> "none",
            brk |-> FALSE, body |-> 0, bodySize |-> 0]

\* --------------------------------------------------------- RPC correlator
\* The synchronous methods the application sends in the model (basic.py 48,
\* tx.py 44) and the frame names a request is registered for (those that
\* answer them, the two of basic.py 336, the four of basic.py 306-308 and
\* the answer to the Channel.Open of channel.py 247).
Methods == {"Basic.Qos", "Tx.Select"}
RespNames == {"Basic.QosOk", "Tx.SelectOk", "Basic.Ack", "Basic.Nack",
              "Basic.GetOk", "Basic.GetEmpty", "ContentHeader", "ContentBody",
              "Channel.OpenOk"}

\* frame_out.valid_responses (channel.py 285).
ValidResponses(m) ==
    IF m = "Basic.Qos" THEN {"Basic.QosOk"}
    ELSE IF m = "Channel.Open" THEN {"Channel.OpenOk"}
    ELSE {"Tx.SelectOk"}

\* The values uuid4() returns (rpc.py 46), told apart by a number.
Uuids == 1 .. MaxCalls

\* rpc.py 22-23: the two dicts of a new Rpc.
NoRequests == [n \in RespNames |-> 0]
NoResponses == [u \in Uuids |-> [present |-> FALSE, frames |-> << >>]]

\* rpc.py 46: a uuid that is in use nowhere.
FreeUuids(req, resp) ==
    {u \in Uuids : ~resp[u].present /\ \A n \in RespNames : req[n] # u}

\* rpc.py 46-49: register_request.
RegisterRequest(req, resp, valid, uuid) ==
    [request |-> [n \in RespNames |-> IF n \in valid THEN uuid ELSE req[n]],
     response |-> [resp EXCEPT ![uuid] = [present |-> TRUE, frames |-> << >>]]]

\* rpc.py 33-34: the frame belongs to a pending request.
RpcTakes(req, name) == name \in RespNames /\ req[name] # 0

\* rpc.py 36-40: on_frame stores the frame under the newest uuid in use.
RpcStoreNewest(req, resp, name) ==
    LET u == CHOOSE x \in Uuids : resp[x].present
                                  /\ \A y \in Uuids : resp[y].present => y <= x IN
    [resp EXCEPT ![u] = [present |-> TRUE, frames |-> Append(@.frames, name)]]

\* rpc.py 36-40: on_frame stores the frame under the request's uuid.
RpcStore(req, resp, name) ==
    [resp EXCEPT ![req[name]] = [present |-> TRUE, frames |-> Append(@.frames, name)]]

\* rpc.py 127-130: the names _raise_rpc_timeout_error gathers for its
\* message.
TimeoutNames(req, uuid) == {n \in RespNames : req[n] = uuid}

\* rpc.py 78: remove_response(uuid) alone.
RpcRemoveResponseOnly(req, resp, uuid) ==
    [request |-> req,
     response |-> [resp EXCEPT ![uuid] = [present |-> FALSE, frames |-> << >>]]]

\* rpc.py 52-78: remove(uuid).
RpcRemove(req, resp, uuid) ==
    [request |-> [n \in RespNames |-> IF req[n] = uuid THEN 0 ELSE req[n]],
     response |-> [resp EXCEPT ![uuid] = [present |-> FALSE, frames |-> << >>]]]

\* rpc.py 115: a caller is in the wait loop of a request on Channel o (any
\* Channel if o = 0) and nothing is stored for it.
Waiting(o) ==
    \E t \in Threads : /\ thr[t].pc = "rpc_wait"
                        /\ o \in {0, thr[t].obj}
                        /\ rpcResponse[thr[t].obj][thr[t].uuid].frames = << >>

\* ------------------------------------------------- channel id allocation
\* connection.py 246-249: the id is in the mapping and its Channel is not
\* CLOSED, so the loop continues.
SlotBusyOpenOnly(chs, st, cid) == chs[cid] # 0 /\ st[chs[cid]] = "OPEN"

SlotBusy(chs, st, cid) == chs[cid] # 0 /\ st[chs[cid]] # "CLOSED"

\* connection.py 245: the first id of RANGE(self._last_channel_id or 1, ...).
ScanStartAfterLast(last) == IF last # 0 THEN last + 1 ELSE 1

ScanStart(last) == IF last # 0 THEN last ELSE 1

\* connection.py 245-252: the for loop from cid up to max_allowed_channels;
\* the first id that is not busy, or 0 when the loop runs out.
RECURSIVE ScanIds(_, _, _)
ScanIds(cid, chs, st) ==
    IF cid >= MaxChannels + 1 THEN 0
    ELSE IF SlotBusy(chs, st, cid) THEN ScanIds(cid + 1, chs, st)
    ELSE cid

\* connection.py 242-258: the id returned (0: AMQPConnectionError 'reached
\* the maximum number of channels'), with _channels and _last_channel_id as
\* the call leaves them.
GetNextAvailableChannelId(chs, st, last) ==
    LET first == ScanIds(ScanStart(last), chs, st)
        again == ScanIds(ScanStart(0), chs, st)
    IN  IF first # 0
        THEN [id |-> first, channels |-> [chs EXCEPT ![first] = 0], last |-> first]
        ELSE IF last # 0 /\ again # 0
        THEN [id |-> again, channels |-> [chs EXCEPT ![again] = 0], last |-> again]
        ELSE [id |-> 0, channels |-> chs, last |-> 0]

\* Ids whose slot holds a Channel that is not CLOSED.
Held(chs, st) == {c \in ChanIds : chs[c] # 0 /\ st[chs[c]] # "CLOSED"}

NoChannels == [c \in ChanIds |-> 0]
Mapped(o) == \E c \in ChanIds : channels[c] = o

\* ------------------------------------------------------ socket writes
\* io.py 129-152: write_to_socket.  With no usable socket the socket.error is
\* caught and appended to IO._exceptions, and the call returns normally.
WriteErr(lists) ==
    IF sockState = "up" THEN lists
    ELSE ListAppend(lists, ioExc, ConnErr("connection/socket error"))

\* --------------------------------------------- Connection.check_for_errors
\* connection.py 140-142: the check that never raises.
ConnCheckNeverRaises == TRUE

\* connection.py 140-142: the check returns without raising.
ConnCheckPasses == excLists[connExc] = << >> /\ connState # "CLOSED"

\* connection.py 143-144: the list the check raises from.
ConnCheckLists(lists) ==
    IF lists[connExc] = << >>
    THEN ListAppend(lists, connExc, ConnErr("connection closed"))
    ELSE lists

\* connection.py 234-240: the Channels in the mapping keep their state.
ClosedNone(st) == st

\* connection.py 234-240: every Channel in the mapping is set CLOSED.
ClosedAll(st) == [o \in DOMAIN st |-> IF Mapped(o) THEN "CLOSED" ELSE st[o]]

\* connection.py 147: the error the check raises, the first of the list.
ConnCheckError(lists) == Head(ConnCheckLists(lists)[connExc])

\* connection.py 145-147 on thread t, o being the Channel whose own
\* check_for_errors made the call (0: none; channel.py 177-181 sets it
\* CLOSED): state CLOSED, close() (heartbeat stopped, remaining channels
\* closed and removed under Connection.lock, socket torn down), and the first
\* error raised.  lists is the heap as the caller's earlier steps left it.
ConnCheckRaises(t, o, lists) ==
    /\ ~ConnCheckPasses
    /\ connLock \in {0, t} \/ channels = NoChannels
    /\ excLists' = ConnCheckLists(lists)
    /\ connState' = "CLOSED"
    /\ hbRunning' = FALSE
    /\ hbTimer' = FALSE
    /\ chanState' = [x \in DOMAIN chanState |->
                        IF x = o THEN "CLOSED" ELSE ClosedAll(chanState)[x]]
    /\ channels' = NoChannels
    /\ ioRunning' = FALSE
    /\ sockState' = "none"

\* ------------------------------------------------------ Connection.channel
\* hist keeps, for the properties only: fullFlip, which changes value at
\* every channel() call that raised for lack of a free id; failed, whether
\* such a call happened since the last id was allocated; skipped, whether the
\* last allocation passed over a lower id that was free; missRun, the number
\* of consecutive heartbeat ticks that saw no read; dead, how many times the
\* monitor declared the connection dead; sent, whether the last tick sent a
\* Heartbeat frame.
\* connection.py 117-120: channel() on a CLOSED connection raises.
ChannelCallClosed(t) ==
    /\ thr[t].pc = "idle"
    /\ connState = "CLOSED"
    /\ thr' = [thr EXCEPT ![t] = IdleThr]
    /\ UNCHANGED << connVars, mapVars, chanVars, wireVars, rpcVars, ioVars, hbVars, hist >>

\* connection.py 122-123, 258: no id is free, the allocator raises.
ChannelCallFull(t) ==
    /\ thr[t].pc = "idle"
    /\ connState # "CLOSED"
    /\ connLock = 0
    /\ LET r == GetNextAvailableChannelId(channels, chanState, lastChannelId) IN
        /\ r.id = 0
        /\ channels' = r.channels
        /\ lastChannelId' = r.last
        /\ hist' = [hist EXCEPT !.fullFlip = ~@, !.failed = TRUE]
    /\ thr' = [thr EXCEPT ![t] = IdleThr]
    /\ UNCHANGED << connVars, connLock, chanVars, wireVars, rpcVars, ioVars, hbVars >>

\* connection.py 122-131 with channel.py 39-52 and 243-247: an id is
\* allocated, the Channel is constructed (CLOSED) and stored; unless lazy,
\* open() sets it OPENING and writes Channel.Open, and the thread waits for
\* the answer with Connection.lock held.
ChannelCall(t, lazy) ==
    /\ thr[t].pc = "idle"
    /\ connState # "CLOSED"
    /\ connLock = 0
    /\ Len(chanId) < MaxObjs
    /\ LET r == GetNextAvailableChannelId(channels, chanState, lastChannelId)
            o == Len(chanId) + 1
        IN
        /\ r.id # 0
        /\ channels' = [r.channels EXCEPT ![r.id] = o]
        /\ lastChannelId' = r.last
        /\ chanId' = Append(chanId, r.id)
        /\ chanExc' = Append(chanExc, << >>)
        /\ chanBuf' = Append(chanBuf, NoBuf)
        /\ rpcRequest' = Append(rpcRequest, NoRequests)
        /\ rpcResponse' = Append(rpcResponse, NoResponses)
        /\ rpcLock' = Append(rpcLock, IF lazy THEN 0 ELSE t)
        /\ hist' = [hist EXCEPT !.failed = FALSE,
                                !.skipped = \E c \in ChanIds :
                                    c < r.id /\ c \notin Held(channels, chanState)]
        /\ IF lazy
           THEN /\ chanState' = Append(chanState, "CLOSED")
                /\ thr' = [thr EXCEPT ![t] = IdleThr]
                /\ UNCHANGED << connLock, excLists, hbWrites >>
           ELSE /\ chanState' = Append(chanState, "OPENING")
                /\ connLock' = t
                /\ hbWrites' = Register(hbWrites)
                /\ excLists' = WriteErr(excLists)
                /\ thr' = [thr EXCEPT ![t] = [IdleThr EXCEPT
                                                !.pc = "open_wait", !.obj = o]]
    /\ UNCHANGED << connState, connExc, hbExc, opens, ioVars, wireVars,
                    hbRunning, hbReads, hbThreshold, hbTimer, hbPc >>

\* Leaving a with-block: the lock is released if thread t holds it.
Release(lock, t) == IF lock = t THEN 0 ELSE lock

\* ------------------------------------------------- Channel.open / close
\* In these actions the RPC of open() and close() is followed through its
\* outcomes: the answer is handed to the waiting request by the reader task,
\* or the wait loop of rpc.py 114-119 raises.

\* channel.py 243-247 with 281-285: open() called on an existing Channel
\* (a lazy one, or one that was closed): buffers reset, OPENING, Channel.Open
\* written.
OpenCall(t, o) ==
    /\ thr[t].pc = "idle"
    /\ o \in Objs
    /\ chanState[o] = "CLOSED"
    /\ rpcLock[o] = 0
    /\ chanState' = [chanState EXCEPT ![o] = "OPENING"]
    /\ chanExc' = [chanExc EXCEPT ![o] = << >>]
    /\ chanBuf' = [chanBuf EXCEPT ![o].inbound = << >>]
    /\ rpcLock' = [rpcLock EXCEPT ![o] = t]
    /\ hbWrites' = Register(hbWrites)
    /\ excLists' = WriteErr(excLists)
    /\ thr' = [thr EXCEPT ![t] = [IdleThr EXCEPT !.pc = "open_wait", !.obj = o]]
    /\ UNCHANGED << connState, connExc, hbExc, opens, mapVars, chanId, wireVars, rpcRequest,
                    rpcResponse, ioVars, hbRunning, hbReads, hbThreshold, hbTimer,
                    hbPc >>
    /\ hist' = [hist EXCEPT !.closeOk = FALSE]

\* connection.py 307-308 with rpc.py 33-41: the reader task hands
\* Channel.OpenOk to the Channel stored under the frame's id, whose pending
\* request takes it.
OpenOkArrives(t) ==
    /\ thr[t].pc = "open_wait"
    /\ ioRunning /\ sockState = "up"
    /\ channels[chanId[thr[t].obj]] = thr[t].obj
    /\ thr' = [thr EXCEPT ![t].pc = "open_got"]
    /\ hbReads' = Register(hbReads)
    /\ UNCHANGED << connVars, mapVars, chanVars, wireVars, rpcVars, ioVars, hbRunning,
                    hbWrites, hbThreshold, hbTimer, hbPc, hist >>

\* rpc.py 115, 89-92 and channel.py 248: the wait ends on the stored answer
\* and open() sets the state OPEN.
OpenReturn(t) ==
    /\ thr[t].pc = "open_got"
    /\ chanState' = [chanState EXCEPT ![thr[t].obj] = "OPEN"]
    /\ rpcLock' = [rpcLock EXCEPT ![thr[t].obj] = 0]
    /\ connLock' = Release(connLock, t)
    /\ thr' = [thr EXCEPT ![t] = IdleThr]
    /\ UNCHANGED << connVars, channels, lastChannelId, chanId, wireVars, chanBuf, chanExc, rpcRequest,
                    rpcResponse, ioVars, hbVars, hist >>

\* rpc.py 116 with channel.py 177-181: the wait of open() finds a connection
\* error; the Channel is set CLOSED and the error raised.
OpenWaitConnError(t) ==
    /\ thr[t].pc = "open_wait"
    /\ ConnCheckRaises(t, thr[t].obj, excLists)
    /\ rpcLock' = [rpcLock EXCEPT ![thr[t].obj] = 0]
    /\ connLock' = Release(connLock, t)
    /\ thr' = [thr EXCEPT ![t] = IdleThr]
    /\ UNCHANGED << connExc, hbExc, opens, lastChannelId, chanId, wireVars, chanBuf, chanExc, rpcRequest,
                    rpcResponse, netIn, srvTodo, hbReads, hbWrites, hbThreshold,
                    hbPc, hist >>

\* rpc.py 117-118, 121-139: no answer within the timeout; the error is
\* raised out of open(), which leaves the state as set in channel.py 246.
OpenWaitTimeout(t) ==
    /\ thr[t].pc = "open_wait"
    /\ ConnCheckPasses
    /\ chanExc[thr[t].obj] = << >>
    /\ chanState[thr[t].obj] # "CLOSED"
    /\ rpcLock' = [rpcLock EXCEPT ![thr[t].obj] = 0]
    /\ connLock' = Release(connLock, t)
    /\ thr' = [thr EXCEPT ![t] = IdleThr]
    /\ UNCHANGED << connVars, channels, lastChannelId, chanVars, wireVars, rpcRequest,
                    rpcResponse, ioVars, hbVars, hist >>

\* channel.py 148-151, 163-166: close() on a Channel that is not OPEN, or on
\* a CLOSED connection: nothing is sent, the state ends CLOSED.
CloseCallNotOpen(t, o) ==
    /\ thr[t].pc = "idle"
    /\ o \in Objs
    /\ connState = "CLOSED" \/ chanState[o] # "OPEN"
    /\ chanState' = [chanState EXCEPT ![o] = "CLOSED"]
    /\ chanBuf' = Cleared(chanBuf, o)
    /\ thr' = [thr EXCEPT ![t] = IdleThr]
    /\ UNCHANGED << connVars, mapVars, chanId, wireVars, chanExc, rpcVars, ioVars, hbVars, hist >>

\* channel.py 148: the test of close() that skips the Channel.Close RPC,
\* reading only the connection's state.
CloseSkipsConnOnly(cs, st) == cs = "CLOSED"

\* channel.py 148: the test of close() that skips the Channel.Close RPC.
CloseSkips(cs, st) == cs = "CLOSED" \/ st # "OPEN"

\* channel.py 147-166: close() called on a Channel that is CLOSED.  hist
\* keeps, for the properties only: reclosed, which changes value at every
\* such call.
CloseCallClosed(t, o) ==
    /\ thr[t].pc = "idle"
    /\ o \in Objs
    /\ chanState[o] = "CLOSED"
    /\ hist' = [hist EXCEPT !.reclosed = ~@]
    /\ IF CloseSkips(connState, chanState[o])
       THEN /\ chanState' = [chanState EXCEPT ![o] = "CLOSED"]
            /\ chanBuf' = Cleared(chanBuf, o)
            /\ thr' = [thr EXCEPT ![t] = IdleThr]
            /\ UNCHANGED << rpcLock, hbWrites, excLists >>
       ELSE /\ rpcLock[o] = 0
            /\ chanState' = [chanState EXCEPT ![o] = "CLOSING"]
            /\ rpcLock' = [rpcLock EXCEPT ![o] = t]
            /\ hbWrites' = Register(hbWrites)
            /\ excLists' = WriteErr(excLists)
            /\ thr' = [thr EXCEPT ![t] = [IdleThr EXCEPT !.pc = "close_wait", !.obj = o]]
            /\ UNCHANGED chanBuf
    /\ UNCHANGED << connState, connExc, hbExc, opens, mapVars, chanId, wireVars, chanExc,
                    rpcRequest, rpcResponse, ioVars, hbRunning, hbReads, hbThreshold,
                    hbTimer, hbPc >>

\* channel.py 152-162 with 281-285: close() on an OPEN Channel: CLOSING,
\* Channel.Close written, the thread waits for Channel.CloseOk.
CloseCall(t, o) ==
    /\ thr[t].pc = "idle"
    /\ o \in Objs
    /\ connState # "CLOSED" /\ chanState[o] = "OPEN"
    /\ rpcLock[o] = 0
    /\ chanState' = [chanState EXCEPT ![o] = "CLOSING"]
    /\ rpcLock' = [rpcLock EXCEPT ![o] = t]
    /\ hbWrites' = Register(hbWrites)
    /\ excLists' = WriteErr(excLists)
    /\ thr' = [thr EXCEPT ![t] = [IdleThr EXCEPT !.pc = "close_wait", !.obj = o]]
    /\ UNCHANGED << connState, connExc, hbExc, opens, mapVars, chanId, wireVars, chanBuf, chanExc,
                    rpcRequest, rpcResponse, ioVars, hbRunning, hbReads, hbThreshold,
                    hbTimer, hbPc, hist >>

\* channel.py 158-166: the RPC of close() ends (Channel.CloseOk taken, or the
\* timeout raised) and the finally block sets the state CLOSED.
CloseEnd(t) ==
    /\ thr[t].pc = "close_wait"
    /\ ConnCheckPasses
    /\ chanState' = [chanState EXCEPT ![thr[t].obj] = "CLOSED"]
    /\ chanBuf' = Cleared(chanBuf, thr[t].obj)
    /\ rpcLock' = [rpcLock EXCEPT ![thr[t].obj] = 0]
    /\ thr' = [thr EXCEPT ![t] = IdleThr]
    /\ UNCHANGED << connVars, mapVars, chanId, wireVars, chanExc, rpcRequest, rpcResponse,
                    ioVars, hbVars, hist >>

\* channel.py 158-166 with rpc.py 116: the wait of close() (its adapter is
\* the Connection) finds a connection error; the finally block still runs.
CloseWaitConnError(t) ==
    /\ thr[t].pc = "close_wait"
    /\ ConnCheckRaises(t, thr[t].obj, excLists)
    /\ chanBuf' = Cleared(chanBuf, thr[t].obj)
    /\ rpcLock' = [rpcLock EXCEPT ![thr[t].obj] = 0]
    /\ thr' = [thr EXCEPT ![t] = IdleThr]
    /\ UNCHANGED << connExc, hbExc, opens, lastChannelId, connLock, chanId, wireVars, chanExc,
                    rpcRequest, rpcResponse, netIn, srvTodo, hbReads, hbWrites,
                    hbThreshold, hbPc, hist >>

\* channel.py 452-457 with 335-336, 183, 195-199: with the connection's check
\* passing, write_frame(CloseOk) writes the frame unless check_for_exceptions
\* raises a recorded error of the Channel, which _close_channel drops.
CloseOkWritten(exc) == exc = << >>

\* channel.py 228-229, 447-470: the reader task handles a Channel.Close sent
\* by the server for an OPEN channel, on a connection whose check passes:
\* CloseOk written if the Channel's check lets it, consumer tags and inbound
\* frames dropped, the error recorded, the state CLOSED.  hist keeps, for the
\* properties only: closeOk, whether the CloseOk of the last Channel.Close
\* was written (reset when a Channel is opened).
ServerClose(o) ==
    /\ o \in Objs
    /\ ioRunning /\ sockState = "up"
    /\ channels[chanId[o]] = o
    /\ chanState[o] = "OPEN"
    /\ ConnCheckPasses
    /\ chanState' = [chanState EXCEPT ![o] = "CLOSED"]
    /\ chanBuf' = Cleared(chanBuf, o)
    /\ chanExc' = [chanExc EXCEPT ![o] =
                      Append(@, ChanErr("Channel was closed by remote server"))]
    /\ hbReads' = Register(hbReads)
    /\ hbWrites' = IF CloseOkWritten(chanExc[o]) THEN Register(hbWrites) ELSE hbWrites
    /\ hist' = [hist EXCEPT !.brokeWaiting = @ \/ Waiting(o),
                            !.closeOk = CloseOkWritten(chanExc[o])]
    /\ UNCHANGED << connVars, mapVars, chanId, wireVars, rpcVars, ioVars, hbRunning,
                    hbThreshold, hbTimer, hbPc, thr >>

\* channel.py 226-227, 361-380: the reader task handles a Basic.Return: an
\* AMQPMessageError is appended to the Channel's error list.
BasicReturn(o) ==
    /\ o \in Objs
    /\ ioRunning /\ sockState = "up"
    /\ channels[chanId[o]] = o
    /\ Len(chanExc[o]) < MaxErrs
    /\ chanExc' = [chanExc EXCEPT ![o] = Append(@, MsgErr("Message not delivered"))]
    /\ hbReads' = Register(hbReads)
    /\ UNCHANGED << connVars, mapVars, chanId, wireVars, chanState, chanBuf, rpcVars, ioVars,
                    hbRunning, hbWrites, hbThreshold, hbTimer, hbPc, thr, hist >>

\* channel.py 224-225: the reader task handles a Basic.ConsumeOk: its
\* consumer tag is added to the Channel's tags.
ReadConsumeOk(o, tag) ==
    /\ o \in Objs
    /\ ioRunning /\ sockState = "up"
    /\ channels[chanId[o]] = o
    /\ tag \notin chanBuf[o].tags
    /\ chanBuf' = [chanBuf EXCEPT ![o].tags = @ \cup {tag}]
    /\ hbReads' = Register(hbReads)
    /\ UNCHANGED << connVars, mapVars, chanId, wireVars, chanState, chanExc, rpcVars, ioVars,
                    hbRunning, hbWrites, hbThreshold, hbTimer, hbPc, thr, hist >>

\* ------------------------------------------------------- Connection.close
\* hist also keeps, for the properties only: atClose, the Channel objects
\* that were in the mapping when the running Connection.close() was called;
\* idem, whether the connection was CLOSED when it was called.
\* The Channel objects in Connection._channels.
MappedObjs == {channels[c] : c \in {x \in ChanIds : channels[x] # 0}}

\* connection.py 238: the loop of _close_remaining_channels leaves the
\* Channel's state alone.
CloseMarkedKeep(st, o) == st

\* connection.py 238: set_state(Channel.CLOSED) on a Channel of the mapping.
CloseMarked(st, o) == [st EXCEPT ![o] = "CLOSED"]

\* connection.py 153-159: close() on a connection that is not CLOSED and has
\* a socket: CLOSING, heartbeat stopped, Connection.Close written, and the
\* thread waits for the state CLOSED.
ConnCloseCall(t) ==
    /\ thr[t].pc = "idle"
    /\ connState # "CLOSED" /\ sockState # "none"
    /\ connState' = "CLOSING"
    /\ hbRunning' = FALSE
    /\ hbTimer' = FALSE
    /\ hbWrites' = Register(hbWrites)
    /\ excLists' = WriteErr(excLists)
    /\ thr' = [thr EXCEPT ![t] = [IdleThr EXCEPT !.pc = "cclose_wait"]]
    /\ hist' = [hist EXCEPT !.atClose = MappedObjs]
    /\ UNCHANGED << connExc, hbExc, opens, mapVars, chanVars, wireVars, rpcVars, ioVars,
                    hbReads, hbThreshold, hbPc >>

\* connection.py 153-157: close() on a CLOSED connection, or one without a
\* socket: the heartbeat is stopped and the finally block is next.
ConnCloseCallClosed(t) ==
    /\ thr[t].pc = "idle"
    /\ connState = "CLOSED" \/ sockState = "none"
    /\ connState' = IF connState = "CLOSED" THEN "CLOSED" ELSE "CLOSING"
    /\ hbRunning' = FALSE
    /\ hbTimer' = FALSE
    /\ thr' = [thr EXCEPT ![t] = [IdleThr EXCEPT !.pc = "cclose_fin"]]
    /\ hist' = [hist EXCEPT !.atClose = MappedObjs, !.idem = (connState = "CLOSED")]
    /\ UNCHANGED << excLists, connExc, hbExc, opens, mapVars, chanVars, wireVars, rpcVars,
                    ioVars, hbReads, hbWrites, hbThreshold, hbPc >>

\* Channel0 on Connection.CloseOk (channel0.py, read by the reader task):
\* the connection state is set CLOSED.
ConnCloseOkArrives ==
    /\ connState = "CLOSING"
    /\ ioRunning /\ sockState = "up"
    /\ connState' = "CLOSED"
    /\ hbReads' = Register(hbReads)
    /\ UNCHANGED << excLists, connExc, hbExc, opens, mapVars, chanVars, wireVars, rpcVars,
                    ioVars, hbRunning, hbWrites, hbThreshold, hbTimer, hbPc, thr, hist >>

\* Channel0 on a Connection.Close sent by the server (channel0.py, read by
\* the reader task): the state is set CLOSED and the server's reason is
\* appended to the Connection's exception list.
ServerConnectionClose ==
    /\ connState \in {"OPEN", "CLOSING"}
    /\ ioRunning /\ sockState = "up"
    /\ connState' = "CLOSED"
    /\ excLists' = ListAppend(excLists, connExc,
                              ConnErr("Connection was closed by remote server"))
    /\ hbReads' = Register(hbReads)
    /\ hist' = [hist EXCEPT !.brokeWaiting = @ \/ Waiting(0)]
    /\ UNCHANGED << connExc, hbExc, opens, mapVars, chanVars, wireVars, rpcVars,
                    ioVars, hbRunning, hbWrites, hbThreshold, hbTimer, hbPc, thr >>

\* connection.py 159-161, 361-366: the wait for CLOSED ends: the state was
\* reached, or the timeout raised an AMQPConnectionError that close() drops.
ConnCloseWaitEnd(t) ==
    /\ thr[t].pc = "cclose_wait"
    /\ connState = "CLOSED" \/ ConnCheckPasses
    /\ thr' = [thr EXCEPT ![t].pc = "cclose_fin"]
    /\ UNCHANGED << connVars, mapVars, chanVars, wireVars, rpcVars, ioVars, hbVars, hist >>

\* connection.py 237: _close_remaining_channels takes list(self._channels).
ConnCloseSnapshot(t) ==
    /\ thr[t].pc = "cclose_fin"
    /\ thr' = [thr EXCEPT ![t].pc = "cclose_loop",
                          ![t].ids = {c \in ChanIds : channels[c] # 0}]
    /\ UNCHANGED << connVars, mapVars, chanVars, wireVars, rpcVars, ioVars, hbVars, hist >>

\* connection.py 238-239: the next Channel of the snapshot is set CLOSED and
\* closed (channel.py 148-151, 163-166: nothing is sent).
ConnCloseMark(t) ==
    /\ thr[t].pc = "cclose_loop"
    /\ thr[t].ids # {}
    /\ LET c == CHOOSE x \in thr[t].ids : \A y \in thr[t].ids : x <= y IN
        IF channels[c] # 0
        THEN /\ chanState' = CloseMarked(chanState, channels[c])
             /\ thr' = [thr EXCEPT ![t].pc = "cclose_clean"]
             /\ hist' = hist
        ELSE \* the id is gone: self._channels[channel_id] raises KeyError out
             \* of the finally block of close()
             /\ chanState' = chanState
             /\ thr' = [thr EXCEPT ![t] = IdleThr]
             /\ hist' = [hist EXCEPT !.atClose = {}, !.idem = FALSE]
    /\ UNCHANGED << connVars, mapVars, chanId, wireVars, chanBuf, chanExc, rpcVars, ioVars, hbVars >>

\* connection.py 240, 312-318: _cleanup_channel removes the id under
\* Connection.lock.
ConnCloseClean(t) ==
    /\ thr[t].pc = "cclose_clean"
    /\ connLock \in {0, t}
    /\ LET c == CHOOSE x \in thr[t].ids : \A y \in thr[t].ids : x <= y IN
        /\ channels' = [channels EXCEPT ![c] = 0]
        /\ thr' = [thr EXCEPT ![t].pc = "cclose_loop", ![t].ids = @ \ {c}]
    /\ UNCHANGED << connVars, lastChannelId, connLock, chanVars, wireVars, rpcVars, ioVars,
                    hbVars, hist >>

\* connection.py 164-165 with io.py 68-87: the socket is torn down, the
\* reader task ends, the state is CLOSED.
ConnCloseEnd(t) ==
    /\ thr[t].pc = "cclose_loop"
    /\ thr[t].ids = {}
    /\ ioRunning' = FALSE
    /\ sockState' = "none"
    /\ connState' = "CLOSED"
    /\ thr' = [thr EXCEPT ![t] = IdleThr]
    /\ hist' = [hist EXCEPT !.atClose = {}, !.idem = FALSE]
    /\ UNCHANGED << excLists, connExc, hbExc, opens, mapVars, chanVars, wireVars, rpcVars,
                    netIn, srvTodo, hbVars >>

\* ------------------------------------------------------------- heartbeat
\* heartbeat.py 92: the miss counter has reached the limit.
DeadAtOne(threshold) == threshold >= 1

IsDead(threshold) == threshold >= 2

\* heartbeat.py 90-97: the miss counter after a tick that saw reads reads.
NextThreshold(reads, threshold) == IF reads = 0 THEN threshold + 1 ELSE 0

\* The properties' count of consecutive ticks that saw no read; it stops
\* counting one past the limit.
MissRun(reads, run) == IF reads # 0 THEN 0 ELSE IF run < 3 THEN run + 1 ELSE run

\* connection.py 287-305: the reader task reads a frame of channel 0 that
\* needs no handling (a Heartbeat of the server); the read is registered.
ReadHeartbeatFrame ==
    /\ ioRunning /\ sockState = "up"
    /\ hbReads' = Register(hbReads)
    /\ UNCHANGED << connVars, mapVars, chanVars, wireVars, rpcVars, ioVars, hbRunning,
                    hbWrites, hbThreshold, hbTimer, hbPc, thr, hist >>

\* connection.py 202-215: Connection.write_frame: the write is registered and
\* the bytes handed to the socket layer.  hist keeps, for the properties
\* only: wrote, whether the application has written a frame since the last
\* tick of the monitor ended.
ConnWriteFrame(t) ==
    /\ thr[t].pc = "idle"
    /\ hbWrites' = Register(hbWrites)
    /\ excLists' = WriteErr(excLists)
    /\ hist' = [hist EXCEPT !.wrote = TRUE]
    /\ UNCHANGED << connState, connExc, hbExc, opens, mapVars, chanVars, wireVars, rpcVars,
                    ioVars, hbRunning, hbReads, hbThreshold, hbTimer, hbPc, thr >>

\* heartbeat.py 78-84: the timer fires.  A stopped monitor returns; a
\* running one sends a Heartbeat frame (through Connection.write_frame) if no
\* write was registered since the last tick.
TickBegin ==
    /\ hbTimer /\ hbPc = "idle"
    /\ hbTimer' = FALSE
    /\ IF ~hbRunning
       THEN UNCHANGED << hbPc, hbWrites, excLists, hist >>
       ELSE /\ hbPc' = "check"
            /\ hbWrites' = IF hbWrites = 0 THEN Register(hbWrites) ELSE hbWrites
            /\ excLists' = IF hbWrites = 0 THEN WriteErr(excLists) ELSE excLists
            /\ hist' = [hist EXCEPT !.sent = (hbWrites = 0)]
    /\ UNCHANGED << connState, connExc, hbExc, opens, mapVars, chanVars, wireVars, rpcVars,
                    ioVars, hbRunning, hbReads, hbThreshold, thr >>

\* heartbeat.py 86-97, 106-124: under the monitor's lock the miss counter is
\* stepped; at the limit the monitor stops and appends 'Connection dead' to
\* the list it was started with.
TickCheck ==
    /\ hbPc = "check"
    /\ hbThreshold' = NextThreshold(hbReads, hbThreshold)
    /\ IF hbReads = 0 /\ IsDead(hbThreshold')
       THEN /\ hbRunning' = FALSE
            /\ excLists' = ListAppend(excLists, hbExc,
                   ConnErr("Connection dead, no heartbeat or data received"))
            /\ hbPc' = "dead"
            /\ hist' = [hist EXCEPT !.missRun = MissRun(hbReads, @),
                                    !.dead = IF @ < 2 THEN @ + 1 ELSE @,
                                    !.brokeWaiting = @ \/ Waiting(0)]
       ELSE /\ hbPc' = "reset"
            /\ hist' = [hist EXCEPT !.missRun = MissRun(hbReads, @)]
            /\ UNCHANGED << hbRunning, excLists >>
    /\ UNCHANGED << connState, connExc, hbExc, opens, mapVars, chanVars, wireVars, rpcVars,
                    ioVars, hbReads, hbWrites, hbTimer, thr >>

\* heartbeat.py 98-104, 126-137: the finally block zeroes both counters; a
\* tick that did not declare the connection dead schedules the next timer
\* if the monitor is still running.  hist keeps, for the properties only:
\* lostRead, whether this block zeroed a read that was registered after the
\* tick had counted a miss.
TickReset ==
    /\ hbPc \in {"reset", "dead"}
    /\ hbReads' = 0
    /\ hbWrites' = 0
    /\ hbTimer' = (hbPc = "reset" /\ hbRunning)
    /\ hbPc' = "idle"
    /\ hist' = [hist EXCEPT !.wrote = FALSE,
                            !.lostRead = (hbReads # 0 /\ hbThreshold # 0)]
    /\ UNCHANGED << connVars, mapVars, chanVars, wireVars, rpcVars, ioVars, hbRunning,
                    hbThreshold, thr >>

\* connection.py 133-147: the application calls check_for_errors and it
\* raises: everything is closed.
ConnCheckCallRaises(t) ==
    /\ thr[t].pc = "idle"
    /\ ConnCheckRaises(t, 0, excLists)
    /\ UNCHANGED << connExc, hbExc, opens, lastChannelId, connLock, chanId, wireVars, chanBuf, chanExc,
                    rpcVars, netIn, srvTodo, hbReads, hbWrites, hbThreshold, hbPc,
                    thr, hist >>

\* connection.py 133-147: the application calls Connection.check_for_errors.
\* hist keeps, for the properties only: raised, the error the last
\* check_for_errors call of the application raised; checked, the Channel it
\* was called on (0: the Connection); checks, which changes value at every
\* such call; fatal, whether such a call was made with an error in the
\* Connection's list.
ConnCheckCall(t) ==
    /\ thr[t].pc = "idle"
    /\ \/ /\ ConnCheckPasses
          /\ UNCHANGED << excLists, connState, hbRunning, hbTimer, chanState,
                          channels, ioRunning, sockState >>
       \/ ConnCheckRaises(t, 0, excLists)
    /\ hist' = [hist EXCEPT !.raised = IF ConnCheckPasses THEN NoErr
                                       ELSE ConnCheckError(excLists),
                            !.checked = 0,
                            !.checks = ~@,
                            !.fatal = @ \/ excLists[connExc] # << >>]
    /\ UNCHANGED << connExc, hbExc, opens, lastChannelId, connLock, chanId, wireVars, chanBuf,
                    chanExc, rpcVars, netIn, srvTodo, hbReads, hbWrites, hbThreshold,
                    hbPc, thr >>

\* connection.py 159-161 with 363: the wait of close() finds an error in the
\* list; check_for_errors closes everything and close() drops its error.
ConnCloseWaitError(t) ==
    /\ thr[t].pc = "cclose_wait"
    /\ connState # "CLOSED"
    /\ ConnCheckRaises(t, 0, excLists)
    /\ thr' = [thr EXCEPT ![t].pc = "cclose_fin"]
    /\ UNCHANGED << connExc, hbExc, opens, lastChannelId, connLock, chanId, wireVars, chanBuf, chanExc,
                    rpcVars, netIn, srvTodo, hbReads, hbWrites, hbThreshold, hbPc,
                    hist >>

\* ------------------------------------------------------------ rpc_request
\* hist also keeps, for the properties only: outcome, how the last
\* rpc_request ended; handed, whether a valid response of that request was
\* handed to Channel.on_frame after its frame was written; deadAtStart,
\* whether the monitor had declared the connection dead when it started;
\* wroteClosed, whether a request frame reached the socket although the
\* Channel was CLOSED when the operation was called; brokeWaiting, whether
\* the Channel was closed or a connection error recorded while the caller
\* was in the wait loop with nothing stored for it.
\* channel.py 281-283 with connection.py 214-215: rpc_request of a
\* synchronous method m (basic.qos, tx.select, ...) on Channel o takes the Rpc
\* lock and writes the frame.
RpcCall(t, o, m) ==
    /\ thr[t].pc = "idle"
    /\ o \in Objs
    /\ rpcLock[o] = 0
    /\ FreeUuids(rpcRequest[o], rpcResponse[o]) # {}
    /\ Len(srvTodo) < MaxInflight
    /\ rpcLock' = [rpcLock EXCEPT ![o] = t]
    /\ hbWrites' = Register(hbWrites)
    /\ excLists' = WriteErr(excLists)
    /\ srvTodo' = IF sockState = "up" THEN Append(srvTodo, << chanId[o], m >>)
                  ELSE srvTodo
    /\ thr' = [thr EXCEPT ![t] = [IdleThr EXCEPT !.pc = "rpc_written", !.obj = o,
                                                 !.frame = m]]
    /\ hist' = [hist EXCEPT !.outcome = "none", !.handed = FALSE,
                            !.brokeWaiting = FALSE, !.listed = {},
                            !.deadAtStart = (hist.dead > 0),
                            !.wroteClosed = @ \/ (chanState[o] = "CLOSED"
                                                   /\ sockState = "up")]
    /\ UNCHANGED << connState, connExc, hbExc, opens, mapVars, chanVars, wireVars, rpcRequest,
                    rpcResponse, sockState, ioRunning, netIn, hbRunning, hbReads,
                    hbThreshold, hbTimer, hbPc >>

\* channel.py 285 with rpc.py 43-50: the request is registered under a new
\* uuid.
RpcRegister(t) ==
    /\ thr[t].pc = "rpc_written"
    /\ LET o == thr[t].obj IN
       \E u \in FreeUuids(rpcRequest[o], rpcResponse[o]) :
        LET r == RegisterRequest(rpcRequest[o], rpcResponse[o],
                                 ValidResponses(thr[t].frame), u) IN
        /\ rpcRequest' = [rpcRequest EXCEPT ![o] = r.request]
        /\ rpcResponse' = [rpcResponse EXCEPT ![o] = r.response]
        /\ thr' = [thr EXCEPT ![t].pc = "rpc_wait", ![t].uuid = u]
    /\ UNCHANGED << connVars, mapVars, chanVars, wireVars, rpcLock, ioVars, hbVars, hist >>

\* rpc.py 115 and 89-98: the loop test finds a stored frame; it is popped,
\* the request removed and the frame returned.
RpcReturn(t) ==
    /\ thr[t].pc = "rpc_wait"
    /\ LET o == thr[t].obj IN
        /\ rpcResponse[o][thr[t].uuid].frames # << >>
        /\ LET r == RpcRemove(rpcRequest[o], rpcResponse[o], thr[t].uuid) IN
            /\ rpcRequest' = [rpcRequest EXCEPT ![o] = r.request]
            /\ rpcResponse' = [rpcResponse EXCEPT ![o] = r.response]
        /\ rpcLock' = [rpcLock EXCEPT ![o] = 0]
    /\ thr' = [thr EXCEPT ![t] = IdleThr]
    /\ hist' = [hist EXCEPT !.outcome = "ok"]
    /\ UNCHANGED << connVars, mapVars, chanVars, wireVars, ioVars, hbVars >>

\* rpc.py 116 with channel.py 177-181: the loop body finds a connection
\* error; the Channel is set CLOSED and the error raised.  The request stays
\* registered.
RpcWaitConnError(t) ==
    /\ thr[t].pc = "rpc_wait"
    /\ rpcResponse[thr[t].obj][thr[t].uuid].frames = << >>
    /\ ConnCheckRaises(t, thr[t].obj, excLists)
    /\ rpcLock' = [rpcLock EXCEPT ![thr[t].obj] = 0]
    /\ thr' = [thr EXCEPT ![t] = IdleThr]
    /\ hist' = [hist EXCEPT !.outcome = "error"]
    /\ UNCHANGED << connExc, hbExc, opens, lastChannelId, connLock, chanId, wireVars, chanBuf, chanExc,
                    rpcRequest, rpcResponse, netIn, srvTodo, hbReads, hbWrites,
                    hbThreshold, hbPc >>

\* rpc.py 116 with channel.py 183, 195-199: the loop body finds an error in
\* the Channel's own list and raises it (it is popped only if the Channel is
\* OPEN).
RpcWaitChanError(t) ==
    /\ thr[t].pc = "rpc_wait"
    /\ rpcResponse[thr[t].obj][thr[t].uuid].frames = << >>
    /\ ConnCheckPasses
    /\ chanExc[thr[t].obj] # << >>
    /\ chanExc' = [chanExc EXCEPT ![thr[t].obj] =
                      IF chanState[thr[t].obj] = "OPEN" THEN Tail(@) ELSE @]
    /\ rpcLock' = [rpcLock EXCEPT ![thr[t].obj] = 0]
    /\ thr' = [thr EXCEPT ![t] = IdleThr]
    /\ hist' = [hist EXCEPT !.outcome = "error"]
    /\ UNCHANGED << connVars, mapVars, chanId, wireVars, chanBuf, chanState, rpcRequest, rpcResponse,
                    ioVars, hbVars >>

\* rpc.py 116 with channel.py 185-186: the loop body finds the Channel
\* CLOSED and raises 'channel closed'.
RpcWaitChanClosed(t) ==
    /\ thr[t].pc = "rpc_wait"
    /\ rpcResponse[thr[t].obj][thr[t].uuid].frames = << >>
    /\ ConnCheckPasses
    /\ chanExc[thr[t].obj] = << >>
    /\ chanState[thr[t].obj] = "CLOSED"
    /\ rpcLock' = [rpcLock EXCEPT ![thr[t].obj] = 0]
    /\ thr' = [thr EXCEPT ![t] = IdleThr]
    /\ hist' = [hist EXCEPT !.outcome = "error"]
    /\ UNCHANGED << connVars, mapVars, chanVars, wireVars, rpcRequest, rpcResponse, ioVars,
                    hbVars >>

\* rpc.py 117-118, 121-139: nothing stored within the timeout; the request
\* is removed and 'rpc requests ... took too long' raised.  hist keeps, for
\* the properties only: listed, the names in that message.
RpcWaitTimeout(t) ==
    /\ thr[t].pc = "rpc_wait"
    /\ LET o == thr[t].obj IN
        /\ rpcResponse[o][thr[t].uuid].frames = << >>
        /\ ConnCheckPasses
        /\ chanExc[o] = << >>
        /\ chanState[o] # "CLOSED"
        /\ LET r == RpcRemove(rpcRequest[o], rpcResponse[o], thr[t].uuid) IN
            /\ rpcRequest' = [rpcRequest EXCEPT ![o] = r.request]
            /\ rpcResponse' = [rpcResponse EXCEPT ![o] = r.response]
        /\ rpcLock' = [rpcLock EXCEPT ![o] = 0]
    /\ thr' = [thr EXCEPT ![t] = IdleThr]
    /\ hist' = [hist EXCEPT !.outcome = "timeout",
                            !.listed = TimeoutNames(rpcRequest[thr[t].obj],
                                                    thr[t].uuid)]
    /\ UNCHANGED << connVars, mapVars, chanVars, wireVars, ioVars, hbVars >>

\* ------------------------------------------------- Channel.write_frame ops
\* channel.py 335-336 with connection.py 214-215: an operation that sends
\* one frame and expects no answer (basic.ack, nack, reject): the check
\* passes and the frame is written.
ChanWriteFrameOk(t, o) ==
    /\ thr[t].pc = "idle"
    /\ o \in Objs
    /\ ConnCheckPasses
    /\ chanExc[o] = << >>
    /\ chanState[o] # "CLOSED"
    /\ hbWrites' = Register(hbWrites)
    /\ excLists' = WriteErr(excLists)
    /\ hist' = [hist EXCEPT !.wroteClosed = @ \/ (chanState[o] = "CLOSED"
                                                   /\ sockState = "up")]
    /\ UNCHANGED << connState, connExc, hbExc, opens, mapVars, chanVars, wireVars, rpcVars,
                    ioVars, hbRunning, hbReads, hbThreshold, hbTimer, hbPc, thr >>

\* channel.py 335 with 177-181: the check finds a connection error; the
\* Channel is set CLOSED, the error raised and nothing written.
ChanWriteFrameConnError(t, o) ==
    /\ thr[t].pc = "idle"
    /\ o \in Objs
    /\ ConnCheckRaises(t, o, excLists)
    /\ UNCHANGED << connExc, hbExc, opens, lastChannelId, connLock, chanId, wireVars, chanBuf, chanExc,
                    rpcVars, netIn, srvTodo, hbReads, hbWrites, hbThreshold, hbPc,
                    thr, hist >>

\* channel.py 335 with 183, 195-199: the check raises the first error of the
\* Channel's own list; nothing is written.
ChanWriteFrameChanError(t, o) ==
    /\ thr[t].pc = "idle"
    /\ o \in Objs
    /\ ConnCheckPasses
    /\ chanExc[o] # << >>
    /\ chanExc' = [chanExc EXCEPT ![o] = IF chanState[o] = "OPEN" THEN Tail(@) ELSE @]
    /\ UNCHANGED << connVars, mapVars, chanId, wireVars, chanBuf, chanState, rpcVars, ioVars, hbVars,
                    thr, hist >>

\* channel.py 335 with 185-186: the check raises 'channel closed'; nothing is
\* written.
ChanWriteFrameClosed(t, o) ==
    /\ thr[t].pc = "idle"
    /\ o \in Objs
    /\ ConnCheckPasses
    /\ chanExc[o] = << >>
    /\ chanState[o] = "CLOSED"
    /\ UNCHANGED vars

\* ------------------------------------------------------ server and reader
\* io.py 270-289: the bytes the reader task will receive.  The server answers
\* the oldest request frame it has not answered yet with a valid response.
ServerAnswer ==
    /\ sockState = "up"
    /\ srvTodo # << >>
    /\ Len(netIn) < MaxInflight
    /\ \E name \in ValidResponses(Head(srvTodo)[2]) :
          netIn' = Append(netIn, << Head(srvTodo)[1], name >>)
    /\ srvTodo' = Tail(srvTodo)
    /\ UNCHANGED << connVars, mapVars, chanVars, wireVars, rpcVars, sockState, ioRunning,
                    hbVars, thr, hist >>

\* connection.py 287-308 with channel.py 212-236 and rpc.py 29-41: the
\* reader task takes the next frame, registers the read and hands it to the
\* Channel stored under its id; a frame no pending request is registered for
\* falls through to the 'Unhandled Frame' log line.
ReadFrame ==
    /\ ioRunning /\ sockState = "up"
    /\ netIn # << >>
    /\ LET cid == Head(netIn)[1]
           name == Head(netIn)[2]
           o == channels[cid] IN
        /\ rpcResponse' =
              IF o # 0 /\ RpcTakes(rpcRequest[o], name)
              THEN [rpcResponse EXCEPT ![o] = RpcStore(rpcRequest[o], @, name)]
              ELSE rpcResponse
        /\ hist' = [hist EXCEPT !.handed = @ \/
                      (o # 0 /\ \E t \in Threads :
                          /\ thr[t].pc \in {"rpc_written", "rpc_wait"}
                          /\ thr[t].obj = o
                          /\ name \in ValidResponses(thr[t].frame)),
                                !.openOk = IF o # 0 /\ name = "Channel.OpenOk"
                                           THEN @ \cup {o} ELSE @]
    /\ netIn' = Tail(netIn)
    /\ hbReads' = Register(hbReads)
    /\ UNCHANGED << connVars, mapVars, chanVars, wireVars, rpcRequest, rpcLock, sockState,
                    ioRunning, srvTodo, hbRunning, hbWrites, hbThreshold, hbTimer,
                    hbPc, thr >>

\* -------------------------------------------------------- Connection.open
\* hist also keeps, for the properties only: opened, how the last
\* Connection.open() ended.
\* connection.py 183-190 with io.py 89-119: open() on a closed connection
\* sets OPENING, binds a new exception list, empties the channel mapping and
\* connects the socket; the reader task starts.
ConnOpenCall(t) ==
    /\ thr[t].pc = "idle"
    /\ connState = "CLOSED"
    /\ opens < MaxOpens
    /\ connState' = "OPENING"
    /\ opens' = opens + 1
    /\ connExc' = opens + 1
    /\ channels' = NoChannels
    /\ lastChannelId' = 0
    /\ ioRunning' = TRUE
    /\ sockState' = "up"
    /\ netIn' = << >>
    /\ srvTodo' = << >>
    /\ thr' = [thr EXCEPT ![t] = [IdleThr EXCEPT !.pc = "copen_hs"]]
    /\ hist' = [hist EXCEPT !.opened = "none"]
    /\ UNCHANGED << excLists, hbExc, connLock, chanVars, wireVars, rpcVars, hbVars >>

\* connection.py 183-190 with io.py 186-202: no address accepts the
\* connection; _find_address_and_connect raises AMQPConnectionError, which
\* leaves open() at line 190.
ConnOpenConnectFails(t) ==
    /\ thr[t].pc = "idle"
    /\ connState = "CLOSED"
    /\ opens < MaxOpens
    /\ connState' = "OPENING"
    /\ opens' = opens + 1
    /\ connExc' = opens + 1
    /\ channels' = NoChannels
    /\ lastChannelId' = 0
    /\ ioRunning' = TRUE
    /\ thr' = [thr EXCEPT ![t] = IdleThr]
    /\ hist' = [hist EXCEPT !.opened = "error"]
    /\ UNCHANGED << excLists, hbExc, connLock, chanVars, wireVars, rpcVars, sockState, netIn,
                    srvTodo, hbVars >>

\* connection.py 194, 320-338: the protocol header is written.
ConnOpenHandshake(t) ==
    /\ thr[t].pc = "copen_hs"
    /\ excLists' = WriteErr(excLists)
    /\ srvTodo' = IF sockState = "up" THEN Append(srvTodo, << 0, "ProtocolHeader" >>)
                  ELSE srvTodo
    /\ thr' = [thr EXCEPT ![t].pc = "copen_wait"]
    /\ UNCHANGED << connState, connExc, hbExc, opens, mapVars, chanVars, wireVars, rpcVars,
                    sockState, ioRunning, netIn, hbVars, hist >>

\* connection.py 195 and 198, heartbeat.py 43-58: the wait finds the state
\* OPEN; the heartbeat monitor is started with the Connection's current list.
ConnOpenReturn(t) ==
    /\ thr[t].pc = "copen_wait"
    /\ connState = "OPEN"
    /\ hbRunning' = TRUE
    /\ hbThreshold' = 0
    /\ hbReads' = 0
    /\ hbWrites' = 0
    /\ hbExc' = connExc
    /\ hbTimer' = TRUE
    /\ thr' = [thr EXCEPT ![t] = IdleThr]
    /\ hist' = [hist EXCEPT !.opened = "ok", !.missRun = 0]
    /\ UNCHANGED << connState, excLists, connExc, opens, mapVars, chanVars, wireVars, rpcVars,
                    ioVars, hbPc >>

\* connection.py 363 with 143-147: the wait finds an error in the
\* Connection's list (or the state CLOSED); everything is closed and the
\* error raised.
ConnOpenWaitError(t) ==
    /\ thr[t].pc = "copen_wait"
    /\ connState # "OPEN"
    /\ ConnCheckRaises(t, 0, excLists)
    /\ thr' = [thr EXCEPT ![t] = IdleThr]
    /\ hist' = [hist EXCEPT !.opened = "error"]
    /\ UNCHANGED << connExc, hbExc, opens, lastChannelId, connLock, chanId, wireVars, chanBuf, chanExc,
                    rpcVars, netIn, srvTodo, hbReads, hbWrites, hbThreshold, hbPc >>

\* connection.py 364-365: the state OPEN is not reached within the timeout;
\* 'connection timed out' is raised out of open().
ConnOpenWaitTimeout(t) ==
    /\ thr[t].pc = "copen_wait"
    /\ connState # "OPEN"
    /\ ConnCheckPasses
    /\ thr' = [thr EXCEPT ![t] = IdleThr]
    /\ hist' = [hist EXCEPT !.opened = "error"]
    /\ UNCHANGED << connVars, mapVars, chanVars, wireVars, rpcVars, ioVars, hbVars >>

\* The frame the server sends on a frame of the negotiation.
HandshakeReply(f) ==
    IF f = "ProtocolHeader" THEN "Connection.Start"
    ELSE IF f = "Connection.StartOk" THEN "Connection.Tune"
    ELSE "Connection.OpenOk"

\* io.py 270-289: the bytes the reader task will receive during the
\* negotiation: the server answers the oldest frame written on channel 0.
ServerHandshake ==
    /\ sockState = "up"
    /\ srvTodo # << >>
    /\ Head(srvTodo)[1] = 0
    /\ Len(netIn) < MaxInflight
    /\ netIn' = Append(netIn, << 0, HandshakeReply(Head(srvTodo)[2]) >>)
    /\ srvTodo' = Tail(srvTodo)
    /\ UNCHANGED << connVars, mapVars, chanVars, wireVars, rpcVars, sockState, ioRunning,
                    hbVars, thr, hist >>

\* io.py 270-289: the server sends a frame the negotiation does not expect.
ServerUnexpected ==
    /\ sockState = "up"
    /\ connState = "OPENING"
    /\ Len(netIn) < MaxInflight
    /\ netIn' = Append(netIn, << 0, "Unexpected" >>)
    /\ UNCHANGED << connVars, mapVars, chanVars, wireVars, rpcVars, sockState, ioRunning,
                    srvTodo, hbVars, thr, hist >>

\* connection.py 301-305 with Channel0.on_frame (channel0.py): the reader
\* task hands a frame of channel 0 to Channel0.  Start is answered with
\* StartOk, Tune with TuneOk and Open; OpenOk sets the state OPEN; any other
\* frame during the negotiation is recorded as a connection error.
ReadChannel0Frame ==
    /\ ioRunning /\ sockState = "up"
    /\ netIn # << >>
    /\ Head(netIn)[1] = 0
    /\ netIn' = Tail(netIn)
    /\ LET name == Head(netIn)[2]
           answer == IF name = "Connection.Start" THEN "Connection.StartOk"
                     ELSE "Connection.Open" IN
        IF name \in {"Connection.Start", "Connection.Tune"}
        THEN /\ srvTodo' = Append(srvTodo, << 0, answer >>)
             /\ hbWrites' = Register(hbWrites)
             /\ UNCHANGED << connState, excLists >>
        ELSE IF name = "Connection.OpenOk"
        THEN /\ connState' = "OPEN"
             /\ UNCHANGED << srvTodo, hbWrites, excLists >>
        ELSE /\ connState' = "CLOSED"
             /\ excLists' = ListAppend(excLists, connExc, ConnErr("unexpected frame"))
             /\ UNCHANGED << srvTodo, hbWrites >>
    /\ hbReads' = Register(hbReads)
    /\ UNCHANGED << connExc, hbExc, opens, mapVars, chanVars, wireVars, rpcVars, sockState,
                    ioRunning, hbRunning, hbThreshold, hbTimer, hbPc, thr, hist >>

\* The peer resets the TCP connection; the client has not noticed yet.
PeerReset ==
    /\ sockState = "up"
    /\ sockState' = "down"
    /\ UNCHANGED << connVars, mapVars, chanVars, wireVars, rpcVars, ioRunning, netIn, srvTodo,
                    hbVars, thr, hist >>

\* io.py 257-289: the reader task's recv fails (or returns no bytes); the
\* error is appended to the list IO was constructed with and the reader
\* task stops.
ReaderSocketError ==
    /\ ioRunning
    /\ sockState = "down"
    /\ excLists' = ListAppend(excLists, ioExc, ConnErr("connection closed by server"))
    /\ ioRunning' = FALSE
    /\ UNCHANGED << connState, connExc, hbExc, opens, mapVars, chanVars, wireVars, rpcVars,
                    sockState, netIn, srvTodo, hbVars, thr, hist >>

\* ----------------------------------------------------- message reassembly
\* The content frames of channel.py 29 (CONTENT_FRAME), reduced to their name
\* and, for a header, the announced body_size, for a body, the length of its
\* value.
Deliver == [name |-> "Basic.Deliver", size |-> 0]
Header(n) == [name |-> "ContentHeader", size |-> n]
Body(n) == [name |-> "ContentBody", size |-> n]
ContentFrames == {Deliver} \cup {Header(n) : n \in 0 .. MaxBody}
                           \cup {Body(n) : n \in 0 .. MaxBody}

\* channel.py 177-186: Channel.check_for_errors returns without raising.
ChanCheckPasses(o) ==
    ConnCheckPasses /\ chanExc[o] = << >> /\ chanState[o] # "CLOSED"

\* A variant that leaves the raised error in the Channel's list.
ChanCheckRaisesKeeps(t, o) ==
    \/ /\ ConnCheckRaises(t, o, excLists)
       /\ UNCHANGED chanExc
    \/ /\ ConnCheckPasses
       /\ chanExc[o] # << >> \/ chanState[o] = "CLOSED"
       /\ UNCHANGED << excLists, connState, hbRunning, hbTimer, chanState,
                       channels, ioRunning, sockState, chanExc >>

\* channel.py 177-186, 195-199: Channel.check_for_errors raises on thread t:
\* the connection's error (the Channel set CLOSED), else the first error of
\* the Channel's own list (popped only if the Channel is OPEN), else
\* 'channel closed'.
ChanCheckRaises(t, o) ==
    \/ /\ ConnCheckRaises(t, o, excLists)
       /\ UNCHANGED chanExc
    \/ /\ ConnCheckPasses
       /\ chanExc[o] # << >>
       /\ chanExc' = [chanExc EXCEPT ![o] =
                         IF chanState[o] = "OPEN" THEN Tail(@) ELSE @]
       /\ UNCHANGED << excLists, connState, hbRunning, hbTimer, chanState,
                       channels, ioRunning, sockState >>
    \/ /\ ConnCheckPasses
       /\ chanExc[o] = << >>
       /\ chanState[o] = "CLOSED"
       /\ UNCHANGED << excLists, connState, hbRunning, hbTimer, chanState,
                       channels, ioRunning, sockState, chanExc >>

\* channel.py 177-186, 195-199: what Channel.check_for_errors raises.
ChanCheckError(o) ==
    IF ~ConnCheckPasses THEN ConnCheckError(excLists)
    ELSE IF chanExc[o] # << >> THEN Head(chanExc[o])
    ELSE IF chanState[o] = "CLOSED" THEN ChanErr("channel closed")
    ELSE NoErr

\* connection.py 287-308 with channel.py 212-219: the reader task receives a
\* content frame for the Channel stored under its id; on_frame appends it to
\* the inbound list.
ReadContentFrame(o, f) ==
    /\ ioRunning /\ sockState = "up"
    /\ channels[chanId[o]] = o
    /\ Len(chanBuf[o].inbound) < MaxInbound
    /\ chanBuf' = [chanBuf EXCEPT ![o].inbound = Append(@, f)]
    /\ hbReads' = Register(hbReads)
    /\ UNCHANGED << connVars, mapVars, chanId, wireVars, chanState, chanExc, rpcVars, ioVars,
                    hbRunning, hbWrites, hbThreshold, hbTimer, hbPc, thr, hist >>

\* A variant that leaves the ContentHeader in the inbound list.
BuildMessageHeadersOne(in) ==
    IF in[1].name # "Basic.Deliver"
    THEN [inbound |-> Tail(in), ok |-> FALSE, size |-> 0]
    ELSE IF in[2].name # "ContentHeader"
    THEN [inbound |-> Tail(Tail(in)), ok |-> FALSE, size |-> 0]
    ELSE [inbound |-> Tail(in), ok |-> TRUE, size |-> in[2].size]

\* channel.py 412-428: _build_message_headers pops a Basic.Deliver and a
\* ContentHeader; an out-of-order frame is dropped and nothing returned.
\* in has at least two frames.
BuildMessageHeaders(in) ==
    IF in[1].name # "Basic.Deliver"
    THEN [inbound |-> Tail(in), ok |-> FALSE, size |-> 0]
    ELSE IF in[2].name # "ContentHeader"
    THEN [inbound |-> Tail(Tail(in)), ok |-> FALSE, size |-> 0]
    ELSE [inbound |-> Tail(Tail(in)), ok |-> TRUE, size |-> in[2].size]

\* channel.py 169-186: the application calls Channel.check_for_errors on
\* Channel o.
ChanCheckCall(t, o) ==
    /\ thr[t].pc = "idle"
    /\ o \in Objs
    /\ \/ /\ ChanCheckPasses(o)
          /\ UNCHANGED << excLists, connState, hbRunning, hbTimer, chanState,
                          channels, ioRunning, sockState, chanExc >>
       \/ ChanCheckRaises(t, o)
    /\ hist' = [hist EXCEPT !.raised = ChanCheckError(o),
                            !.checked = o,
                            !.checks = ~@,
                            !.fatal = @ \/ excLists[connExc] # << >>]
    /\ UNCHANGED << connExc, hbExc, opens, lastChannelId, connLock, chanId, wireVars, chanBuf,
                    rpcVars, netIn, srvTodo, hbReads, hbWrites, hbThreshold, hbPc,
                    thr >>

\* channel.py 108: build_inbound_messages(break_on_empty=brk) starts with
\* check_for_errors, which passes.
BuildCall(t, o, brk) ==
    /\ thr[t].pc = "idle"
    /\ o \in Objs
    /\ ChanCheckPasses(o)
    /\ thr' = [thr EXCEPT ![t] = [IdleThr EXCEPT !.pc = "build", !.obj = o,
                                                 !.brk = brk]]
    /\ hist' = [hist EXCEPT !.outcome = "none"]
    /\ UNCHANGED << connVars, mapVars, chanVars, wireVars, rpcVars, ioVars, hbVars >>

\* channel.py 108: the first check_for_errors raises.
BuildCallRaises(t, o) ==
    /\ thr[t].pc = "idle"
    /\ o \in Objs
    /\ ChanCheckRaises(t, o)
    /\ thr' = [thr EXCEPT ![t] = IdleThr]
    /\ hist' = [hist EXCEPT !.outcome = "error"]
    /\ UNCHANGED << connExc, hbExc, opens, lastChannelId, connLock, chanId, wireVars, chanBuf,
                    rpcVars, netIn, srvTodo, hbReads, hbWrites, hbThreshold, hbPc >>

\* channel.py 116: the loop of build_inbound_messages ends on a CLOSED
\* Channel.
BuildEnd(t) ==
    /\ thr[t].pc = "build"
    /\ chanState[thr[t].obj] = "CLOSED"
    /\ thr' = [thr EXCEPT ![t] = IdleThr]
    /\ hist' = [hist EXCEPT !.outcome = "done"]
    /\ UNCHANGED << connVars, mapVars, chanVars, wireVars, rpcVars, ioVars, hbVars >>

\* channel.py 117-118, 390-397: _build_message under Channel.lock: fewer
\* than two inbound frames, or an out-of-order frame, give no message; a
\* Basic.Deliver and a ContentHeader start the body of the announced size.
BuildMessage(t) ==
    /\ thr[t].pc = "build"
    /\ chanState[thr[t].obj] # "CLOSED"
    /\ LET o == thr[t].obj
           in == chanBuf[o].inbound
           h == BuildMessageHeaders(in) IN
        IF Len(in) < 2
        THEN /\ thr' = [thr EXCEPT ![t].pc = "build_none"]
             /\ UNCHANGED chanBuf
        ELSE /\ chanBuf' = [chanBuf EXCEPT ![o].inbound = h.inbound]
             /\ thr' = [thr EXCEPT ![t].pc = IF h.ok THEN "body" ELSE "build_none",
                                   ![t].body = 0,
                                   ![t].bodySize = h.size]
    /\ UNCHANGED << connVars, mapVars, chanId, wireVars, chanState, chanExc, rpcVars, ioVars,
                    hbVars, hist >>

\* channel.py 119-124: no message was built: check_for_errors passes, and
\* the loop ends if break_on_empty is set and the inbound list is empty,
\* else goes on.
BuildNone(t) ==
    /\ thr[t].pc = "build_none"
    /\ ChanCheckPasses(thr[t].obj)
    /\ IF thr[t].brk /\ chanBuf[thr[t].obj].inbound = << >>
       THEN /\ thr' = [thr EXCEPT ![t] = IdleThr]
            /\ hist' = [hist EXCEPT !.outcome = "done"]
       ELSE /\ thr' = [thr EXCEPT ![t].pc = "build"]
            /\ UNCHANGED hist
    /\ UNCHANGED << connVars, mapVars, chanVars, wireVars, rpcVars, ioVars, hbVars >>

\* channel.py 119-120: no message was built and check_for_errors raises.
BuildNoneRaises(t) ==
    /\ thr[t].pc = "build_none"
    /\ ChanCheckRaises(t, thr[t].obj)
    /\ thr' = [thr EXCEPT ![t] = IdleThr]
    /\ hist' = [hist EXCEPT !.outcome = "error"]
    /\ UNCHANGED << connExc, hbExc, opens, lastChannelId, connLock, chanId, wireVars, chanBuf,
                    rpcVars, netIn, srvTodo, hbReads, hbWrites, hbThreshold, hbPc >>

\* channel.py 436-444: _build_message_body takes the next inbound frame as a
\* body piece: an empty piece ends the body, any other is added to it.
BodyPiece(t) ==
    /\ thr[t].pc = "body"
    /\ thr[t].body < thr[t].bodySize
    /\ chanBuf[thr[t].obj].inbound # << >>
    /\ LET o == thr[t].obj
           piece == Head(chanBuf[o].inbound) IN
        /\ chanBuf' = [chanBuf EXCEPT ![o].inbound = Tail(@)]
        /\ thr' = [thr EXCEPT ![t].body = IF piece.size = 0 THEN thr[t].bodySize
                                                           ELSE @ + piece.size]
    /\ UNCHANGED << connVars, mapVars, chanId, wireVars, chanState, chanExc, rpcVars, ioVars,
                    hbVars, hist >>

\* channel.py 436-440: the body is incomplete, the inbound list is empty and
\* check_for_errors raises.  When it does not raise the loop sleeps and
\* tests again: no variable changes, and there is no other way out.
BodyWaitRaises(t) ==
    /\ thr[t].pc = "body"
    /\ thr[t].body < thr[t].bodySize
    /\ chanBuf[thr[t].obj].inbound = << >>
    /\ ChanCheckRaises(t, thr[t].obj)
    /\ thr' = [thr EXCEPT ![t] = IdleThr]
    /\ hist' = [hist EXCEPT !.outcome = "error"]
    /\ UNCHANGED << connExc, hbExc, opens, lastChannelId, connLock, chanId, wireVars, chanBuf,
                    rpcVars, netIn, srvTodo, hbReads, hbWrites, hbThreshold, hbPc >>

\* channel.py 436, 445, 399-404, 125-128: the body is complete; the Message is built
\* and yielded, and the loop of build_inbound_messages goes on.
BodyDone(t) ==
    /\ thr[t].pc = "body"
    /\ thr[t].body >= thr[t].bodySize
    /\ thr' = [thr EXCEPT ![t].pc = "build", ![t].body = 0, ![t].bodySize = 0]
    /\ hist' = [hist EXCEPT !.outcome = "message"]
    /\ UNCHANGED << connVars, mapVars, chanVars, wireVars, rpcVars, ioVars, hbVars >>

\* ---------------------------------------- message reassembly, step by step
\* The same code with one step for every access to self._inbound, for the
\* interleavings with the reader task, which appends to the list
\* (channel.py 218-219) and empties it (channel.py 459-460) without taking
\* Channel.lock.  A pop(0) on an empty list raises IndexError out of
\* build_inbound_messages.
\* channel.py 116, 391-393: the loop test of build_inbound_messages, then
\* _build_message takes Channel.lock and tests len(self._inbound) < 2.
BuildLenTest(t) ==
    /\ thr[t].pc = "build"
    /\ chanState[thr[t].obj] # "CLOSED"
    /\ thr' = [thr EXCEPT ![t].pc =
                  IF Len(chanBuf[thr[t].obj].inbound) < 2 THEN "build_none" ELSE "pop1"]
    /\ UNCHANGED << connVars, mapVars, chanVars, wireVars, rpcVars, ioVars, hbVars, hist >>

\* channel.py 412-419: basic_deliver = self._inbound.pop(0) and its
\* isinstance test.
BuildPopFirst(t) ==
    /\ thr[t].pc = "pop1"
    /\ LET o == thr[t].obj
           in == chanBuf[o].inbound IN
        IF in = << >>
        THEN /\ thr' = [thr EXCEPT ![t] = IdleThr]
             /\ hist' = [hist EXCEPT !.outcome = "IndexError"]
             /\ UNCHANGED chanBuf
        ELSE /\ chanBuf' = [chanBuf EXCEPT ![o].inbound = Tail(@)]
             /\ thr' = [thr EXCEPT ![t].pc = IF Head(in).name = "Basic.Deliver"
                                             THEN "pop2" ELSE "build_none"]
             /\ UNCHANGED hist
    /\ UNCHANGED << connVars, mapVars, chanId, wireVars, chanState, chanExc, rpcVars, ioVars,
                    hbVars >>

\* channel.py 420-428, 396-397: content_header = self._inbound.pop(0) and
\* its isinstance test; body_size is read from the header.
BuildPopSecond(t) ==
    /\ thr[t].pc = "pop2"
    /\ LET o == thr[t].obj
           in == chanBuf[o].inbound IN
        IF in = << >>
        THEN /\ thr' = [thr EXCEPT ![t] = IdleThr]
             /\ hist' = [hist EXCEPT !.outcome = "IndexError"]
             /\ UNCHANGED chanBuf
        ELSE /\ chanBuf' = [chanBuf EXCEPT ![o].inbound = Tail(@)]
             /\ thr' = [thr EXCEPT ![t].pc = IF Head(in).name = "ContentHeader"
                                             THEN "body" ELSE "build_none",
                                   ![t].body = 0,
                                   ![t].bodySize = IF Head(in).name = "ContentHeader"
                                                   THEN Head(in).size ELSE 0]
             /\ UNCHANGED hist
    /\ UNCHANGED << connVars, mapVars, chanId, wireVars, chanState, chanExc, rpcVars, ioVars,
                    hbVars >>

\* channel.py 436-437: the loop test of _build_message_body and
\* 'if not self._inbound' find a frame in the list.
BodyTestInbound(t) ==
    /\ thr[t].pc = "body"
    /\ thr[t].body < thr[t].bodySize
    /\ chanBuf[thr[t].obj].inbound # << >>
    /\ thr' = [thr EXCEPT ![t].pc = "piece"]
    /\ UNCHANGED << connVars, mapVars, chanVars, wireVars, rpcVars, ioVars, hbVars, hist >>

\* channel.py 441-444: body_piece = self._inbound.pop(0); an empty piece
\* ends the body, any other is added to it.
BodyPop(t) ==
    /\ thr[t].pc = "piece"
    /\ LET o == thr[t].obj
           in == chanBuf[o].inbound IN
        IF in = << >>
        THEN /\ thr' = [thr EXCEPT ![t] = IdleThr]
             /\ hist' = [hist EXCEPT !.outcome = "IndexError"]
             /\ UNCHANGED chanBuf
        ELSE /\ chanBuf' = [chanBuf EXCEPT ![o].inbound = Tail(@)]
             /\ thr' = [thr EXCEPT ![t].pc = "body",
                                   ![t].body = IF Head(in).size = 0 THEN thr[t].bodySize
                                               ELSE @ + Head(in).size]
             /\ UNCHANGED hist
    /\ UNCHANGED << connVars, mapVars, chanId, wireVars, chanState, chanExc, rpcVars, ioVars,
                    hbVars >>

\* ------------------------------------------------------------------ codec
\* Bytes are numbers 0 .. 255 and a byte string is a sequence of them.
\* struct.pack('>H'), ('>I') and ('>Q') (frame.py 211, 235): big-endian
\* unsigned integers.  The model only packs numbers below 2^31.
U16(n) == << (n \div 256) % 256, n % 256 >>
\* The four bytes in the opposite order.
U32Little(n) == << n % 256, (n \div 256) % 256,
                   (n \div 65536) % 256, (n \div 16777216) % 256 >>
U32(n) == << (n \div 16777216) % 256, (n \div 65536) % 256,
             (n \div 256) % 256, n % 256 >>
U64(n) == << 0, 0, 0, 0 >> \o U32(n)

\* struct.unpack of a big-endian unsigned integer (frame.py 197, 148).
RECURSIVE Num(_)
Num(bs) == IF bs = << >> THEN 0
           ELSE Num(SubSeq(bs, 1, Len(bs) - 1)) * 256 + bs[Len(bs)]

\* The Python slice data[a:b] (offsets from 0, b clipped to the length).
Slice(data, a, b) == SubSeq(data, a + 1, IF b < Len(data) THEN b ELSE Len(data))

\* frame.py 17-19 and the frame type numbers of the protocol.
AMQP == << 65, 77, 81, 80 >>
FRAME_HEADER_SIZE == 7
FRAME_END == 206
FRAME_METHOD == 1
FRAME_HEADER == 2
FRAME_BODY == 3
FRAME_HEARTBEAT == 8

\* The five kinds of Frame object (frame.py 31-36).  One record shape for
\* all: value holds the version bytes of a ProtocolHeader or the bytes of
\* a ContentBody, size the body_size of a ContentHeader, name and tag the
\* method and its delivery_tag.
NoFrame == [kind |-> "none", name |-> "", tag |-> 0, size |-> 0, value |-> << >>]
ProtocolHeaderFrame == [NoFrame EXCEPT !.kind = "ProtocolHeader", !.value = << 0, 9, 1 >>]
HeartbeatFrame == [NoFrame EXCEPT !.kind = "Heartbeat"]
MethodFrame(name, tag) == [NoFrame EXCEPT !.kind = "Method", !.name = name, !.tag = tag]
ContentHeaderFrame(n) == [NoFrame EXCEPT !.kind = "ContentHeader", !.size = n]
ContentBodyFrame(v) == [NoFrame EXCEPT !.kind = "ContentBody", !.value = v]

\* specification.INDEX_MAPPING restricted to three methods: class id *
\* 2^16 + method id (0: the name is not a method of the registry).
MethodNames == {"Basic.QosOk", "Basic.Ack", "Basic.Deliver"}
Index(name) == IF name = "Basic.QosOk" THEN 60 * 65536 + 11
               ELSE IF name = "Basic.Ack" THEN 60 * 65536 + 80
               ELSE IF name = "Basic.Deliver" THEN 60 * 65536 + 60
               ELSE 0
\* The typed fields of a method: Basic.QosOk has none, Basic.Ack has a
\* 64-bit delivery_tag and one octet of bits (multiple = False),
\* Basic.Deliver has an (empty) consumer_tag, a 64-bit delivery_tag, one
\* octet of bits (redelivered = False), an (empty) exchange and an (empty)
\* routing_key, each short string being its length octet.
MethodFields(f) ==
    IF f.name = "Basic.Ack" THEN U64(f.tag) \o << 0 >>
    ELSE IF f.name = "Basic.Deliver" THEN << 0 >> \o U64(f.tag) \o << 0, 0, 0 >>
    ELSE << >>

\* frame.py 202-214: header of 7 bytes, payload, end marker.
marshal_(frame_type, channel_id, payload) ==
    << frame_type >> \o U16(channel_id) \o U32(Len(payload)) \o payload \o << FRAME_END >>

\* frame.py 90-121.  ProtocolHeader.marshal() and Heartbeat.marshal() take
\* no channel id: their encodings are fixed.
marshal(frame_value, channel_id) ==
    IF frame_value.kind = "ProtocolHeader" THEN AMQP \o << 0 >> \o frame_value.value
    ELSE IF frame_value.kind = "Method"
    THEN marshal_(FRAME_METHOD, channel_id,
                  U32(Index(frame_value.name)) \o MethodFields(frame_value))
    ELSE IF frame_value.kind = "ContentHeader"
    THEN marshal_(FRAME_HEADER, channel_id,
                  U16(60) \o U16(0) \o U64(frame_value.size) \o U16(0))
    ELSE IF frame_value.kind = "ContentBody"
    THEN marshal_(FRAME_BODY, channel_id, frame_value.value)
    ELSE << FRAME_HEARTBEAT >> \o U16(0) \o U32(0) \o << FRAME_END >>

\* What unmarshal gives: the triple it returns (error = ""), or the
\* message of the exception it raises.
Got(n, c, f) == [count |-> n, channel |-> c, frame |-> f, error |-> ""]
Fail(msg) == [count |-> 0, channel |-> 0, frame |-> NoFrame, error |-> msg]
NoResult == Fail("")

\* frame.py 194-199: the three numbers of the header; with fewer than 7
\* bytes UNMARSHAL_FAILURE, whose size is None.
frame_parts(data_in) ==
    IF Len(data_in) < FRAME_HEADER_SIZE
    THEN [type |-> 0, channel |-> 0, size |-> 0]
    ELSE [type |-> data_in[1], channel |-> Num(SubSeq(data_in, 2, 3)),
          size |-> Num(SubSeq(data_in, 4, 7))]

\* frame.py 144-164: the method index, the registry, the fields.
unmarshal_method_frame(frame_data) ==
    LET method_index == Num(Slice(frame_data, 0, 4))
        fields == Slice(frame_data, 4, Len(frame_data))
    IN  IF Len(frame_data) < 4 THEN [frame |-> NoFrame, error |-> "struct.error"]
        ELSE IF method_index = Index("Basic.QosOk")
        THEN [frame |-> MethodFrame("Basic.QosOk", 0), error |-> ""]
        ELSE IF method_index = Index("Basic.Ack")
        THEN IF Len(fields) < 9
             THEN [frame |-> NoFrame, error |-> "Basic.Ack"]
             ELSE [frame |-> MethodFrame("Basic.Ack", Num(Slice(fields, 0, 8))),
                   error |-> ""]
        ELSE IF method_index = Index("Basic.Deliver")
        THEN IF Len(fields) < 12
             THEN [frame |-> NoFrame, error |-> "Basic.Deliver"]
             ELSE [frame |-> MethodFrame("Basic.Deliver", Num(Slice(fields, 1, 9))),
                   error |-> ""]
        ELSE [frame |-> NoFrame, error |-> "Unknown method index"]

\* frame.py 167-179: class id, weight, body_size, property flags.
unmarshal_header_frame(frame_data) ==
    IF Len(frame_data) < 14 THEN [frame |-> NoFrame, error |-> "ContentHeader"]
    ELSE [frame |-> ContentHeaderFrame(Num(Slice(frame_data, 4, 12))), error |-> ""]

\* frame.py 182-191.
unmarshal_body_frame(frame_data) == [frame |-> ContentBodyFrame(frame_data), error |-> ""]

\* frame.py 28-87, in the order of the code: protocol header, heartbeat,
\* empty payload, length, end marker, frame type.
unmarshal(data_in) ==
    IF Slice(data_in, 0, 4) = AMQP
    THEN IF Len(data_in) < 8 THEN Fail("ProtocolHeader")
         ELSE Got(8, 0, [ProtocolHeaderFrame EXCEPT !.value = Slice(data_in, 5, 8)])
    ELSE
    LET parts == frame_parts(data_in)
        byte_count == FRAME_HEADER_SIZE + parts.size + 1
        frame_data == Slice(data_in, FRAME_HEADER_SIZE, byte_count - 1)
        decoded == IF parts.type = FRAME_METHOD THEN unmarshal_method_frame(frame_data)
                   ELSE IF parts.type = FRAME_HEADER THEN unmarshal_header_frame(frame_data)
                   ELSE IF parts.type = FRAME_BODY THEN unmarshal_body_frame(frame_data)
                   ELSE [frame |-> NoFrame, error |-> "Unknown frame type"]
    IN  IF parts.type = FRAME_HEARTBEAT /\ parts.size = 0
        THEN Got(8, parts.channel, HeartbeatFrame)
        ELSE IF parts.size = 0 THEN Fail("No frame size")
        ELSE IF byte_count > Len(data_in) THEN Fail("Not all data received")
        ELSE IF data_in[byte_count] # FRAME_END THEN Fail("Last byte error")
        ELSE IF decoded.error # "" THEN Fail(decoded.error)
        ELSE Got(byte_count, parts.channel, decoded.frame)

\* The frames and channel ids the codec is applied to.  A body holds the
\* letter A and the value of the end marker.
BodyBytes == {65, FRAME_END}
Bodies == UNION {[1 .. n -> BodyBytes] : n \in 0 .. MaxBody}
CodecFrames ==
    {ProtocolHeaderFrame, HeartbeatFrame, MethodFrame("Basic.QosOk", 0)}
    \cup {MethodFrame("Basic.Ack", t) : t \in 1 .. MaxTags}
    \cup {MethodFrame("Basic.Deliver", t) : t \in 1 .. MaxTags}
    \cup {ContentHeaderFrame(n) : n \in 0 .. MaxBody}
    \cup {ContentBodyFrame(v) : v \in Bodies}
CodecChannels == 0 .. MaxChannels
\* The bodies an application publishes.
PublishBodies == UNION {[1 .. n -> BodyBytes] : n \in 0 .. MaxPublish}

\* No call of the library in progress.
NoCall == [op |-> "none", frame |-> NoFrame, channel |-> 0, data |-> << >>,
           res |-> NoResult, body |-> << >>, bodyKind |-> "none", key |-> "none",
           arg |-> "none", F |-> 0, confirming |-> FALSE, mandatory |-> FALSE,
           frames |-> << >>, written |-> << >>, result |-> "none", out |-> "none",
           n |-> 0]

\* marshal(frame_value, channel_id) called on a frame.
MarshalCall(f, c) ==
    /\ call.op = "none"
    /\ call' = [NoCall EXCEPT !.op = "marshal", !.frame = f, !.channel = c,
                              !.data = marshal(f, c)]
    /\ UNCHANGED << connVars, mapVars, chanVars, rpcVars, ioVars, hbVars,
                    thr, wr, rd, hist >>

\* The byte at offset 7 + payload_size of a marshalled frame replaced by
\* another value on the way.
Corrupt(b) ==
    /\ call.op = "marshal"
    /\ call.frame.kind # "ProtocolHeader"
    /\ b # FRAME_END
    /\ call' = [call EXCEPT !.op = "corrupt",
                            !.data[FRAME_HEADER_SIZE + frame_parts(call.data).size + 1] = b]
    /\ UNCHANGED << connVars, mapVars, chanVars, rpcVars, ioVars, hbVars,
                    thr, wr, rd, hist >>

\* unmarshal(data_in) called on the bytes.
UnmarshalCall ==
    /\ call.op \in {"marshal", "corrupt"}
    /\ call' = [call EXCEPT !.op = IF call.op = "marshal" THEN "unmarshal"
                                   ELSE "unmarshal_corrupt",
                            !.res = unmarshal(call.data)]
    /\ UNCHANGED << connVars, mapVars, chanVars, rpcVars, ioVars, hbVars,
                    thr, wr, rd, hist >>

\* The call is over.
CallReturn ==
    /\ call.op \in {"unmarshal", "unmarshal_corrupt"}
    /\ call' = NoCall
    /\ UNCHANGED << connVars, mapVars, chanVars, rpcVars, ioVars, hbVars,
                    thr, wr, rd, hist >>

\* ------------------------------------------------------- socket writes
\* The threads that write through one Connection: application threads on
\* their channels and the heartbeat timer.
Writers == {1, 2}

\* A writer between two calls of write_to_socket: frame_data, the local
\* total_bytes_written, the number of calls made, and whether the last
\* send reported would-block.
IdleWr == [pc |-> "idle", data |-> << >>, total |-> 0, k |-> 0, blocked |-> FALSE]

\* io.py 57: the write lock free, nothing given to the socket.
NoWr == [lock |-> 0, wire |-> << >>, w |-> [x \in Writers |-> IdleWr]]

\* The lock is taken whether it is free or not.
AcquirableAlways(lock) == TRUE
\* io.py 121: _wr_lock.acquire() goes through when the lock is free.
Acquirable(lock) == lock = 0

\* connection.py 225-227: the frames of a batch marshalled and joined.
RECURSIVE MarshalAll(_, _)
MarshalAll(frames_out, channel_id) ==
    IF frames_out = << >> THEN << >>
    ELSE marshal(Head(frames_out), channel_id) \o MarshalAll(Tail(frames_out), channel_id)

\* The bytes of call k of writer x, each with its origin and its offset.
Tagged(data, x, k) == [i \in DOMAIN data |-> [b |-> data[i], by |-> x, call |-> k, at |-> i]]

\* What the writers send: the heartbeat timer a heartbeat through
\* write_frame, an application thread a batch of two body frames through
\* write_frames.
WriteBatch(x) == IF x = 2 THEN << HeartbeatFrame >>
                 ELSE << ContentBodyFrame(<< 65 >>), ContentBodyFrame(<< FRAME_END >>) >>

\* connection.py 202-215 and 217-232: write_frame (one frame) and
\* write_frames (a batch): the bytes are marshalled, the write is
\* registered with the heartbeat, and write_to_socket is called once.
WriteFramesCall(x, frames_out, channel_id) ==
    /\ wr.w[x].pc = "idle"
    /\ wr.w[x].k < MaxWrites
    /\ wr' = [wr EXCEPT !.w[x].pc = "acquire",
                        !.w[x].k = @ + 1,
                        !.w[x].data = Tagged(MarshalAll(frames_out, channel_id),
                                             x, wr.w[x].k + 1)]
    /\ hbWrites' = Register(hbWrites)
    /\ UNCHANGED << connVars, mapVars, chanVars, rpcVars, ioVars, hbRunning, hbReads,
                    hbThreshold, hbTimer, hbPc, thr, rd, call, hist >>

\* io.py 121-124: the lock is acquired and the counters are set.
WrAcquire(x) ==
    /\ wr.w[x].pc = "acquire"
    /\ Acquirable(wr.lock)
    /\ wr' = [wr EXCEPT !.lock = x, !.w[x].pc = "send", !.w[x].total = 0]
    /\ UNCHANGED << connVars, mapVars, chanVars, rpcVars, ioVars, hbVars,
                    thr, rd, call, hist >>

\* io.py 125-138: socket.send takes n bytes of what is left, n >= 1.
WrSend(x, n) ==
    /\ wr.w[x].pc = "send"
    /\ wr.w[x].total < Len(wr.w[x].data)
    /\ n \in 1 .. Len(wr.w[x].data) - wr.w[x].total
    /\ wr' = [wr EXCEPT !.wire = @ \o SubSeq(wr.w[x].data, wr.w[x].total + 1,
                                             wr.w[x].total + n),
                        !.w[x].total = @ + n,
                        !.w[x].blocked = FALSE]
    /\ hist' = [hist EXCEPT !.contended = @ \/
                    (/\ n < Len(wr.w[x].data) - wr.w[x].total
                     /\ \E y \in Writers \ {x} : wr.w[y].pc = "acquire")]
    /\ UNCHANGED << connVars, mapVars, chanVars, rpcVars, ioVars, hbVars,
                    thr, rd, call >>

\* io.py 139-145: socket.timeout, EWOULDBLOCK or EAGAIN: nothing was
\* sent and the loop goes round again.
WrWouldBlock(x) ==
    /\ wr.w[x].pc = "send"
    /\ wr.w[x].total < Len(wr.w[x].data)
    /\ ~wr.w[x].blocked
    /\ wr' = [wr EXCEPT !.w[x].blocked = TRUE]
    /\ UNCHANGED << connVars, mapVars, chanVars, rpcVars, ioVars, hbVars,
                    thr, rd, call, hist >>

\* io.py 129-136, 143-152: no socket, send returned 0 or another socket
\* error: the error goes to the list of the I/O layer, the call returns
\* at once and the lock is released.
WrSocketError(x) ==
    /\ wr.w[x].pc = "send"
    /\ wr.w[x].total < Len(wr.w[x].data)
    /\ Len(excLists[ioExc]) < MaxErrs
    /\ excLists' = ListAppend(excLists, ioExc, ConnErr("socket error"))
    /\ wr' = [wr EXCEPT !.lock = Release(wr.lock, x),
                        !.w[x].pc = "idle", !.w[x].blocked = FALSE]
    /\ UNCHANGED << connState, connExc, hbExc, opens, mapVars, chanVars, rpcVars,
                    ioVars, hbVars, thr, rd, call, hist >>

\* io.py 127 and 151-152: everything was sent; the lock is released.
WrRelease(x) ==
    /\ wr.w[x].pc = "send"
    /\ wr.w[x].total >= Len(wr.w[x].data)
    /\ wr' = [wr EXCEPT !.lock = Release(wr.lock, x), !.w[x].pc = "idle"]
    /\ hist' = [hist EXCEPT !.written = @ \cup
                    {[by |-> x, call |-> wr.w[x].k, len |-> Len(wr.w[x].data)]}]
    /\ UNCHANGED << connVars, mapVars, chanVars, rpcVars, ioVars, hbVars,
                    thr, rd, call >>

\* ----------------------------------------------------- argument checks
\* The kinds of value an application passes for an argument.
ArgKinds == {"int", "str", "none"}
\* compatibility.is_string (basic.py 273-278, channel.py 145).
IsString(v) == v = "str"
\* compatibility.is_integer (basic.py 215, channel.py 143, connection.py 117).
IsInteger(v) == v = "int"
\* The test is made and its result dropped.
RaisesNever(ok) == FALSE
\* basic.py 273-284 and 215-216, channel.py 143-146, connection.py 117-118:
\* if not <test>: raise AMQPInvalidArgument.
RaisesInvalid(ok) == ~ok

\* --------------------------------------------------------- basic.publish
\* The quotient rounded down.
FloorDiv(n, f) == n \div f
\* basic.py 351: int(math.ceil(len(body) / float(max_frame_size))).
CeilDiv(n, f) == (n + f - 1) \div f

\* basic.py 348-359: _create_content_body, one ContentBody per slice of
\* max_frame_size bytes.
CreateContentBody(body, max_frame_size) ==
    [offset \in 1 .. CeilDiv(Len(body), max_frame_size) |->
        ContentBodyFrame(Slice(body, max_frame_size * (offset - 1),
                               max_frame_size * (offset - 1) + max_frame_size))]

\* basic.py 190-202: frames_out.
PublishFrames(body, max_frame_size) ==
    << MethodFrame("Basic.Publish", 0), ContentHeaderFrame(Len(body)) >>
        \o CreateContentBody(body, max_frame_size)

\* Every byte as a result: True for Basic.Nack as well.
ConfirmResultAlways(frame_in) == TRUE
\* basic.py 344-346: isinstance(result, specification.Basic.Ack).
ConfirmResult(frame_in) == frame_in = "Basic.Ack"

\* The arguments of a call as the application gave them; out says how the
\* call ended and n counts the publish calls made.
PublishArgs(body, body_kind, key_kind, f, confirming, mandatory) ==
    [NoCall EXCEPT !.op = "publish", !.n = call.n + 1, !.body = body, !.bodyKind = body_kind,
                   !.key = key_kind, !.F = f, !.confirming = confirming,
                   !.mandatory = mandatory]

\* basic.py 182-208: publish on Channel o.  The arguments are validated;
\* frames_out is built; with confirms enabled Rpc.lock is taken.
PublishCall(t, o, body, body_kind, key_kind, f, confirming, mandatory) ==
    /\ thr[t].pc = "idle"
    /\ o \in Objs
    /\ call.n < MaxCalls
    /\ LET args == PublishArgs(body, body_kind, key_kind, f, confirming, mandatory) IN
       IF RaisesInvalid(IsString(body_kind)) \/ RaisesInvalid(IsString(key_kind))
       THEN /\ call' = [args EXCEPT !.out = "invalid"]
            /\ UNCHANGED << thr, rpcLock >>
       ELSE /\ call' = [args EXCEPT !.frames = PublishFrames(body, f)]
            /\ IF confirming
               THEN /\ rpcLock[o] = 0
                    /\ rpcLock' = [rpcLock EXCEPT ![o] = t]
                    /\ thr' = [thr EXCEPT ![t] = [IdleThr EXCEPT !.pc = "pub_register",
                                                                 !.obj = o]]
               ELSE /\ thr' = [thr EXCEPT ![t] = [IdleThr EXCEPT !.pc = "pub_write",
                                                                 !.obj = o]]
                    /\ UNCHANGED rpcLock
    /\ UNCHANGED << connVars, mapVars, chanVars, rpcRequest, rpcResponse, ioVars,
                    hbVars, wr, rd, hist >>

\* basic.py 336 with rpc.py 43-50: the request for Basic.Ack / Basic.Nack
\* is registered.
PublishRegister(t) ==
    /\ thr[t].pc = "pub_register"
    /\ LET o == thr[t].obj IN
       \E u \in FreeUuids(rpcRequest[o], rpcResponse[o]) :
        LET r == RegisterRequest(rpcRequest[o], rpcResponse[o],
                                 {"Basic.Ack", "Basic.Nack"}, u) IN
        /\ rpcRequest' = [rpcRequest EXCEPT ![o] = r.request]
        /\ rpcResponse' = [rpcResponse EXCEPT ![o] = r.response]
        /\ thr' = [thr EXCEPT ![t].pc = "pub_write", ![t].uuid = u]
    /\ UNCHANGED << connVars, mapVars, chanVars, rpcLock, ioVars, hbVars,
                    wr, rd, call, hist >>

\* basic.py 338 / 210 with channel.py 345-346 and connection.py 217-232:
\* the check passes and the frames are written in one batch.  Without
\* confirms publish returns here; the server owes an answer only to a
\* confirmed publish.
PublishWrite(t) ==
    /\ thr[t].pc = "pub_write"
    /\ ChanCheckPasses(thr[t].obj)
    /\ Len(srvTodo) < MaxInflight
    /\ hbWrites' = Register(hbWrites)
    /\ excLists' = WriteErr(excLists)
    /\ srvTodo' = IF sockState = "up" /\ call.confirming
                  THEN Append(srvTodo, << chanId[thr[t].obj], "Basic.Publish" >>)
                  ELSE srvTodo
    /\ IF call.confirming
       THEN /\ thr' = [thr EXCEPT ![t].pc = "pub_wait"]
            /\ call' = [call EXCEPT !.written = call.frames]
       ELSE /\ thr' = [thr EXCEPT ![t] = IdleThr]
            /\ call' = [call EXCEPT !.written = call.frames, !.out = "returned"]
    /\ UNCHANGED << connState, connExc, hbExc, opens, mapVars, chanVars, rpcVars,
                    sockState, ioRunning, netIn, hbRunning, hbReads, hbThreshold,
                    hbTimer, hbPc, wr, rd, hist >>

\* channel.py 345 with 177-186: the check of write_frames raises; nothing
\* is written and Rpc.lock is released on the way out (basic.py 207).
PublishWriteRaises(t) ==
    /\ thr[t].pc = "pub_write"
    /\ ChanCheckRaises(t, thr[t].obj)
    /\ rpcLock' = [rpcLock EXCEPT ![thr[t].obj] = Release(@, t)]
    /\ thr' = [thr EXCEPT ![t] = IdleThr]
    /\ call' = [call EXCEPT !.out = "raised"]
    /\ UNCHANGED << connExc, hbExc, opens, lastChannelId, connLock, chanId, chanBuf,
                    rpcRequest, rpcResponse, netIn, srvTodo, hbReads, hbWrites,
                    hbThreshold, hbPc, wr, rd, hist >>

\* The server confirms the oldest publish it has not answered.
ServerConfirm(name) ==
    /\ sockState = "up"
    /\ srvTodo # << >>
    /\ Head(srvTodo)[2] = "Basic.Publish"
    /\ Len(netIn) < MaxInflight
    /\ netIn' = Append(netIn, << Head(srvTodo)[1], name >>)
    /\ srvTodo' = Tail(srvTodo)
    /\ UNCHANGED << connVars, mapVars, chanVars, rpcVars, sockState, ioRunning,
                    hbVars, thr, wr, rd, call, hist >>

\* basic.py 340-346 with rpc.py 89-98 and channel.py 195-199: the wait
\* finds the stored confirmation; it is popped and the request removed;
\* with mandatory set an error of the Channel's list is raised; otherwise
\* the result says whether the confirmation is a Basic.Ack.
PublishReturn(t) ==
    /\ thr[t].pc = "pub_wait"
    /\ LET o == thr[t].obj
           result == Head(rpcResponse[o][thr[t].uuid].frames) IN
        /\ rpcResponse[o][thr[t].uuid].frames # << >>
        /\ LET r == RpcRemove(rpcRequest[o], rpcResponse[o], thr[t].uuid) IN
            /\ rpcRequest' = [rpcRequest EXCEPT ![o] = r.request]
            /\ rpcResponse' = [rpcResponse EXCEPT ![o] = r.response]
        /\ rpcLock' = [rpcLock EXCEPT ![o] = Release(@, t)]
        /\ IF call.mandatory /\ chanExc[o] # << >>
           THEN /\ chanExc' = [chanExc EXCEPT ![o] =
                                  IF chanState[o] = "OPEN" THEN Tail(@) ELSE @]
                /\ call' = [call EXCEPT !.result = result, !.out = "raised"]
           ELSE /\ call' = [call EXCEPT !.result = result,
                               !.out = IF ConfirmResult(result) THEN "True" ELSE "False"]
                /\ UNCHANGED chanExc
    /\ thr' = [thr EXCEPT ![t] = IdleThr]
    /\ UNCHANGED << connVars, mapVars, chanId, chanState, chanBuf, ioVars, hbVars,
                    wr, rd, hist >>

\* rpc.py 115-116: nothing is stored and the check of the wait raises.
PublishWaitRaises(t) ==
    /\ thr[t].pc = "pub_wait"
    /\ rpcResponse[thr[t].obj][thr[t].uuid].frames = << >>
    /\ ChanCheckRaises(t, thr[t].obj)
    /\ rpcLock' = [rpcLock EXCEPT ![thr[t].obj] = Release(@, t)]
    /\ thr' = [thr EXCEPT ![t] = IdleThr]
    /\ call' = [call EXCEPT !.out = "raised"]
    /\ UNCHANGED << connExc, hbExc, opens, lastChannelId, connLock, chanId, chanBuf,
                    rpcRequest, rpcResponse, netIn, srvTodo, hbReads, hbWrites,
                    hbThreshold, hbPc, wr, rd, hist >>

\* rpc.py 117-118, 121-139: nothing stored within the timeout; the request
\* is removed and the timeout error raised.
PublishWaitTimeout(t) ==
    /\ thr[t].pc = "pub_wait"
    /\ LET o == thr[t].obj IN
        /\ rpcResponse[o][thr[t].uuid].frames = << >>
        /\ ChanCheckPasses(o)
        /\ LET r == RpcRemove(rpcRequest[o], rpcResponse[o], thr[t].uuid) IN
            /\ rpcRequest' = [rpcRequest EXCEPT ![o] = r.request]
            /\ rpcResponse' = [rpcResponse EXCEPT ![o] = r.response]
        /\ rpcLock' = [rpcLock EXCEPT ![o] = Release(@, t)]
    /\ thr' = [thr EXCEPT ![t] = IdleThr]
    /\ call' = [call EXCEPT !.out = "timeout"]
    /\ UNCHANGED << connVars, mapVars, chanVars, ioVars, hbVars, wr, rd, hist >>

\* ------------------------------------------- calls with a checked argument
\* basic.py 212-220 with channel.py 328-336: basic.ack.  A delivery_tag
\* that is no integer is rejected; otherwise Channel.write_frame checks for
\* errors and writes the Basic.Ack frame.
AckCall(t, o, tag_kind) ==
    /\ thr[t].pc = "idle"
    /\ o \in Objs
    /\ LET args == [NoCall EXCEPT !.op = "ack", !.n = call.n, !.arg = tag_kind] IN
       \/ /\ RaisesInvalid(IsInteger(tag_kind))
          /\ call' = [args EXCEPT !.out = "invalid"]
          /\ UNCHANGED << connVars, mapVars, chanVars, rpcVars, ioVars, hbVars >>
       \/ /\ ~RaisesInvalid(IsInteger(tag_kind))
          /\ ChanCheckPasses(o)
          /\ hbWrites' = Register(hbWrites)
          /\ excLists' = WriteErr(excLists)
          /\ call' = [args EXCEPT !.out = "returned",
                                  !.written = << MethodFrame("Basic.Ack", 1) >>]
          /\ UNCHANGED << connState, connExc, hbExc, opens, mapVars, chanVars, rpcVars,
                          ioVars, hbRunning, hbReads, hbThreshold, hbTimer, hbPc >>
       \/ /\ ~RaisesInvalid(IsInteger(tag_kind))
          /\ ChanCheckRaises(t, o)
          /\ call' = [args EXCEPT !.out = "raised"]
          /\ UNCHANGED << connExc, hbExc, opens, lastChannelId, connLock, chanId,
                          chanBuf, rpcVars, netIn, srvTodo, hbReads, hbWrites,
                          hbThreshold, hbPc >>
    /\ UNCHANGED << thr, wr, rd, hist >>

\* channel.py 143-146: Channel.close with a reply_code that is no integer
\* or a reply_text that is no string is rejected before the try block.
CloseCallInvalid(t, o, code_kind, text_kind) ==
    /\ thr[t].pc = "idle"
    /\ o \in Objs
    /\ RaisesInvalid(IsInteger(code_kind)) \/ RaisesInvalid(IsString(text_kind))
    /\ call' = [NoCall EXCEPT !.op = "close", !.n = call.n, !.arg = code_kind, !.key = text_kind,
                              !.out = "invalid"]
    /\ UNCHANGED << connVars, mapVars, chanVars, rpcVars, ioVars, hbVars,
                    thr, wr, rd, hist >>

\* connection.py 117-118: Connection.channel with an rpc_timeout that is
\* no integer is rejected before the state is looked at.
ChannelCallInvalid(t, timeout_kind) ==
    /\ thr[t].pc = "idle"
    /\ RaisesInvalid(IsInteger(timeout_kind))
    /\ call' = [NoCall EXCEPT !.op = "channel", !.n = call.n, !.arg = timeout_kind, !.out = "invalid"]
    /\ UNCHANGED << connVars, mapVars, chanVars, rpcVars, ioVars, hbVars,
                    thr, wr, rd, hist >>

\* ------------------------------------------------------------ reader task
\* io.py 63: IO.data_in empty; no byte on its way from the server.  The
\* reader task is in no call of Rpc.on_frame: pc is its position in
\* rpc.py 29-41, obj, name and uuid are the Channel, frame_in.name and the
\* local uuid of the call, returned is how its last call ended.
NoRd == [dataIn |-> << >>, sockIn |-> << >>,
         pc |-> "idle", obj |-> 0, name |-> "", uuid |-> 0, returned |-> "none"]

\* rpc.py 29-41, one step for every access to self._request and
\* self._response, none of which is made under a lock.  The reader task
\* takes the next frame (connection.py 287-308) and Rpc.on_frame tests
\* 'frame_in.name not in self._request' (rpc.py 33-34).
OnFrameEnter ==
    /\ ioRunning /\ sockState = "up"
    /\ rd.pc = "idle"
    /\ netIn # << >>
    /\ LET name == Head(netIn)[2]
           o == channels[Head(netIn)[1]] IN
        rd' = IF o # 0 /\ RpcTakes(rpcRequest[o], name)
              THEN [rd EXCEPT !.pc = "lookup", !.obj = o, !.name = name,
                              !.uuid = 0, !.returned = "none"]
              ELSE [rd EXCEPT !.obj = o, !.name = name, !.uuid = 0,
                              !.returned = "False"]
    /\ netIn' = Tail(netIn)
    /\ hbReads' = Register(hbReads)
    /\ UNCHANGED << connVars, mapVars, chanVars, wr, call, rpcVars, sockState,
                    ioRunning, srvTodo, hbRunning, hbWrites, hbThreshold, hbTimer,
                    hbPc, thr, hist >>

\* rpc.py 36: uuid = self._request[frame_in.name]; a key that is no longer
\* there raises KeyError, which nothing catches: the reader task ends.
OnFrameLookup ==
    /\ rd.pc = "lookup"
    /\ rd' = IF rpcRequest[rd.obj][rd.name] = 0
             THEN [rd EXCEPT !.pc = "dead", !.returned = "KeyError"]
             ELSE [rd EXCEPT !.pc = "test", !.uuid = rpcRequest[rd.obj][rd.name]]
    /\ UNCHANGED << connVars, mapVars, chanVars, wr, call, rpcVars, ioVars, hbVars,
                    thr, hist >>

\* rpc.py 37: if self._response[uuid].
OnFrameTest ==
    /\ rd.pc = "test"
    /\ rd' = IF ~rpcResponse[rd.obj][rd.uuid].present
             THEN [rd EXCEPT !.pc = "dead", !.returned = "KeyError"]
             ELSE IF rpcResponse[rd.obj][rd.uuid].frames # << >>
             THEN [rd EXCEPT !.pc = "append"]
             ELSE [rd EXCEPT !.pc = "assign"]
    /\ UNCHANGED << connVars, mapVars, chanVars, wr, call, rpcVars, ioVars, hbVars,
                    thr, hist >>

\* rpc.py 38 and 41: self._response[uuid].append(frame_in); return True.
OnFrameAppend ==
    /\ rd.pc = "append"
    /\ IF ~rpcResponse[rd.obj][rd.uuid].present
       THEN /\ rd' = [rd EXCEPT !.pc = "dead", !.returned = "KeyError"]
            /\ UNCHANGED rpcResponse
       ELSE /\ rd' = [rd EXCEPT !.pc = "idle", !.returned = "True"]
            /\ rpcResponse' = [rpcResponse EXCEPT ![rd.obj][rd.uuid].frames =
                                                      Append(@, rd.name)]
    /\ UNCHANGED << connVars, mapVars, chanVars, wr, call, rpcRequest, rpcLock,
                    ioVars, hbVars, thr, hist >>

\* rpc.py 40-41: self._response[uuid] = [frame_in]; return True.
OnFrameAssign ==
    /\ rd.pc = "assign"
    /\ rd' = [rd EXCEPT !.pc = "idle", !.returned = "True"]
    /\ rpcResponse' = [rpcResponse EXCEPT ![rd.obj][rd.uuid] =
                           [present |-> TRUE, frames |-> << rd.name >>]]
    /\ UNCHANGED << connVars, mapVars, chanVars, wr, call, rpcRequest, rpcLock,
                    ioVars, hbVars, thr, hist >>

\* connection.py 260-277: _handle_amqp_frame.  Every failure of unmarshal
\* in frame.py is an UnmarshalingException, which is passed over: the data
\* comes back unchanged with no frame.
HandleAmqpFrame(data_in) ==
    LET r == unmarshal(data_in) IN
    IF data_in = << >> \/ r.error # ""
    THEN [data_in |-> data_in, channel_id |-> 0, frame_in |-> NoFrame]
    ELSE [data_in |-> Slice(data_in, r.count, Len(data_in)),
          channel_id |-> r.channel, frame_in |-> r.frame]

\* connection.py 287-310: the loop of _read_buffer: the frames it hands
\* out, in order, and the data it returns.
RECURSIVE ReadBuffer(_)
ReadBuffer(data_in) ==
    IF data_in = << >> THEN [data_in |-> << >>, frames |-> << >>]
    ELSE LET h == HandleAmqpFrame(data_in) IN
         IF h.frame_in = NoFrame THEN [data_in |-> h.data_in, frames |-> << >>]
         ELSE LET more == ReadBuffer(h.data_in) IN
              [data_in |-> more.data_in,
               frames |-> << [channel_id |-> h.channel_id, frame_in |-> h.frame_in] >>
                              \o more.frames]

\* connection.py 304-308: where a frame goes: Channel0, the Channel stored
\* under its id, or nowhere.
Target(channel_id) ==
    IF channel_id = 0 THEN [to |-> "channel0", obj |-> 0]
    ELSE IF channel_id \in ChanIds /\ channels[channel_id] # 0
    THEN [to |-> "channel", obj |-> channels[channel_id]]
    ELSE [to |-> "none", obj |-> 0]

\* channel.py 218-219: the entry of the inbound list a content frame makes.
InboundOf(f) ==
    IF f.kind = "Method" THEN Deliver
    ELSE IF f.kind = "ContentHeader" THEN Header(f.size) ELSE Body(Len(f.value))

\* channel.py 212-219 with rpc.py 29-41, for every frame handed to a
\* Channel: stored for the pending request registered for it, or appended
\* to the inbound list if it is a content frame.
RECURSIVE OnFrames(_, _, _)
OnFrames(frames, resp, buf) ==
    IF frames = << >> THEN [response |-> resp, buf |-> buf]
    ELSE LET f == Head(frames).frame_in
             o == Target(Head(frames).channel_id).obj IN
         IF o = 0 THEN OnFrames(Tail(frames), resp, buf)
         ELSE IF f.kind = "Method" /\ RpcTakes(rpcRequest[o], f.name)
         THEN OnFrames(Tail(frames),
                       [resp EXCEPT ![o] = RpcStore(rpcRequest[o], @, f.name)], buf)
         ELSE IF f.kind \in {"ContentHeader", "ContentBody"} \/ f.name = "Basic.Deliver"
         THEN OnFrames(Tail(frames), resp,
                       [buf EXCEPT ![o].inbound = Append(@, InboundOf(f))])
         ELSE OnFrames(Tail(frames), resp, buf)

\* connection.py 302: register_read once for every frame.
RECURSIVE Registered(_, _)
Registered(n, k) == IF k = 0 THEN n ELSE Registered(Register(n), k - 1)

\* io.py 262-268 with connection.py 279-310: the socket delivers the next
\* n bytes; they are added to data_in and _read_buffer decodes and hands
\* out every frame it can; what it returns is the new data_in.  hist
\* keeps, for the properties only: dispatched, the frames handed out.
Receive(n) ==
    /\ ioRunning /\ sockState = "up"
    /\ n \in 1 .. Len(rd.sockIn)
    /\ \E r \in {ReadBuffer(rd.dataIn \o SubSeq(rd.sockIn, 1, n))} :
       \E on \in {OnFrames(r.frames, rpcResponse, chanBuf)} :
        /\ rd' = [rd EXCEPT !.dataIn = r.data_in,
                            !.sockIn = SubSeq(rd.sockIn, n + 1, Len(rd.sockIn))]
        /\ rpcResponse' = on.response
        /\ chanBuf' = on.buf
        /\ hbReads' = Registered(hbReads, Len(r.frames))
        /\ hist' = [hist EXCEPT !.dispatched = @ \o
                       [i \in DOMAIN r.frames |->
                           [channel_id |-> r.frames[i].channel_id,
                            frame_in |-> r.frames[i].frame_in,
                            to |-> Target(r.frames[i].channel_id)]]]
    /\ UNCHANGED << connVars, mapVars, chanId, chanState, chanExc, rpcRequest, rpcLock,
                    ioVars, hbRunning, hbWrites, hbThreshold, hbTimer, hbPc,
                    thr, wr, call >>

\* The frames the server sends: a heartbeat on channel 0, a method and a
\* body on the open channel 1, a method on channel 2, which no Channel
\* holds.
StreamFrames ==
    {[channel_id |-> 0, frame_in |-> HeartbeatFrame],
     [channel_id |-> 1, frame_in |-> MethodFrame("Basic.QosOk", 0)],
     [channel_id |-> 1, frame_in |-> ContentBodyFrame(<< 65 >>)],
     [channel_id |-> 2, frame_in |-> MethodFrame("Basic.QosOk", 0)]}

\* The server puts the bytes of one more frame on the connection.  hist
\* keeps, for the properties only: stream, the frames sent so far.
ServerSends(s) ==
    /\ sockState = "up"
    /\ Len(hist.stream) < MaxStream
    /\ ~hist.corrupt
    /\ rd' = [rd EXCEPT !.sockIn = @ \o marshal(s.frame_in, s.channel_id)]
    /\ hist' = [hist EXCEPT !.stream = Append(@, s)]
    /\ UNCHANGED << connVars, mapVars, chanVars, rpcVars, ioVars, hbVars, thr, wr, call >>

\* A body piece of n bytes.
Chunk(n) == [i \in 1 .. n |-> 65]

\* The frames of a delivery on channel 1: the Basic.Deliver, the
\* ContentHeader announcing a body_size, the ContentBody pieces.
MsgFrames ==
    {[channel_id |-> 1, frame_in |-> f] :
        f \in {MethodFrame("Basic.Deliver", 1)}
               \cup {ContentHeaderFrame(n) : n \in 0 .. MaxSize}
               \cup {ContentBodyFrame(Chunk(n)) : n \in 1 .. MaxSize}}

\* The bytes of the ContentBody frames among the first k frames of s.
RECURSIVE BodyBytesOf(_, _)
BodyBytesOf(s, k) ==
    IF k = 0 THEN 0
    ELSE BodyBytesOf(s, k - 1)
         + (IF s[k].frame_in.kind = "ContentBody" THEN Len(s[k].frame_in.value) ELSE 0)

\* What a server sends for one delivery, or a beginning of it: a
\* Basic.Deliver, a ContentHeader, body pieces that sum to the announced
\* body_size and, after them, the Basic.Deliver of the next delivery.
WellFormed(s) ==
    /\ Len(s) >= 1 => s[1].frame_in.name = "Basic.Deliver"
    /\ Len(s) >= 2 => s[2].frame_in.kind = "ContentHeader"
    /\ \A i \in 3 .. Len(s) :
          IF BodyBytesOf(s, i - 1) < s[2].frame_in.size
          THEN /\ s[i].frame_in.kind = "ContentBody"
               /\ BodyBytesOf(s, i) <= s[2].frame_in.size
          ELSE /\ s[i].frame_in.name = "Basic.Deliver"
               /\ i = Len(s)
               /\ s[i - 1].frame_in.kind # "Method"

\* Bytes that are no frame: a method frame with a wrong end marker, a
\* frame of the unknown type 9, a method frame with an index that is in
\* no registry.
CorruptData ==
    {[marshal(MethodFrame("Basic.QosOk", 0), 1) EXCEPT ![12] = 0],
     marshal_(9, 1, << 0 >>),
     marshal_(FRAME_METHOD, 1, U32(60 * 65536 + 99))}

\* Damaged bytes arrive on the connection.  hist keeps, for the properties
\* only: corrupt, whether that happened.
ServerSendsCorrupt(data) ==
    /\ sockState = "up"
    /\ Len(hist.stream) < MaxStream
    /\ ~hist.corrupt
    /\ rd' = [rd EXCEPT !.sockIn = @ \o data]
    /\ hist' = [hist EXCEPT !.corrupt = TRUE]
    /\ UNCHANGED << connVars, mapVars, chanVars, rpcVars, ioVars, hbVars, thr, wr, call >>

\* ------------------------------------------------------------ initial states
NoHist == [fullFlip |-> FALSE, failed |-> FALSE, skipped |-> FALSE,
           missRun |-> 0, dead |-> 0, sent |-> FALSE, wrote |-> FALSE, lostRead |-> FALSE,
           outcome |-> "none", handed |-> FALSE, deadAtStart |-> FALSE,
           wroteClosed |-> FALSE, opened |-> "none", atClose |-> {},
           idem |-> FALSE, reclosed |-> FALSE, brokeWaiting |-> FALSE,
           frameIn |-> "none", taken |-> FALSE, calls |-> FALSE, openOk |-> {},
           listed |-> {}, closeOk |-> FALSE,
           raised |-> NoErr, checked |-> 0, checks |-> FALSE, fatal |-> FALSE,
           contended |-> FALSE, written |-> {},
           stream |-> << >>, corrupt |-> FALSE, dispatched |-> << >>]

\* The state a successful Connection.open() leaves (connection.py 183-198):
\* the list created by open() is the Connection's and the heartbeat's, the
\* IO layer still holds the list of __init__; no channel yet.
InitOpened ==
    /\ connState = "OPEN"
    /\ excLists = [i \in 0 .. MaxOpens |-> << >>]
    /\ connExc = 1
    /\ hbExc = 1
    /\ opens = 1
    /\ channels = NoChannels
    /\ lastChannelId = 0
    /\ connLock = 0
    /\ chanId = << >> /\ chanState = << >> /\ chanExc = << >>
    /\ chanBuf = << >>
    /\ rpcRequest = << >> /\ rpcResponse = << >> /\ rpcLock = << >>
    /\ sockState = "up"
    /\ ioRunning = TRUE
    /\ netIn = << >>
    /\ srvTodo = << >>
    /\ hbRunning = TRUE
    /\ hbReads = 0 /\ hbWrites = 0 /\ hbThreshold = 0
    /\ hbTimer = TRUE
    /\ hbPc = "idle"
    /\ thr = [t \in Threads |-> IdleThr]
    /\ wr = NoWr /\ rd = NoRd /\ call = NoCall
    /\ hist = NoHist

\* An open connection with one open channel, as Connection.channel() leaves
\* it (connection.py 124-131).
InitRpc ==
    /\ connState = "OPEN"
    /\ excLists = [i \in 0 .. MaxOpens |-> << >>]
    /\ connExc = 1
    /\ hbExc = 1
    /\ opens = 1
    /\ channels = [NoChannels EXCEPT ![1] = 1]
    /\ lastChannelId = 1
    /\ connLock = 0
    /\ chanId = << 1 >> /\ chanState = << "OPEN" >> /\ chanExc = << << >> >>
    /\ chanBuf = << NoBuf >>
    /\ rpcRequest = << NoRequests >>
    /\ rpcResponse = << NoResponses >>
    /\ rpcLock = << 0 >>
    /\ sockState = "up"
    /\ ioRunning = TRUE
    /\ netIn = << >>
    /\ srvTodo = << >>
    /\ hbRunning = TRUE
    /\ hbReads = 0 /\ hbWrites = 0 /\ hbThreshold = 0
    /\ hbTimer = TRUE
    /\ hbPc = "idle"
    /\ thr = [t \in Threads |-> IdleThr]
    /\ wr = NoWr /\ rd = NoRd /\ call = NoCall
    /\ hist = NoHist

\* As InitRpc, after a second non-lazy channel() call: two OPEN channels,
\* and the reads and writes of the two Channel.Open RPCs registered.
InitPair ==
    /\ connState = "OPEN"
    /\ excLists = [i \in 0 .. MaxOpens |-> << >>]
    /\ connExc = 1
    /\ hbExc = 1
    /\ opens = 1
    /\ channels = [NoChannels EXCEPT ![1] = 1, ![2] = 2]
    /\ lastChannelId = 2
    /\ connLock = 0
    /\ chanId = << 1, 2 >> /\ chanState = << "OPEN", "OPEN" >>
    /\ chanExc = << << >>, << >> >>
    /\ chanBuf = << NoBuf, NoBuf >>
    /\ rpcRequest = << NoRequests, NoRequests >>
    /\ rpcResponse = << NoResponses, NoResponses >>
    /\ rpcLock = << 0, 0 >>
    /\ sockState = "up"
    /\ ioRunning = TRUE
    /\ netIn = << >>
    /\ srvTodo = << >>
    /\ hbRunning = TRUE
    /\ hbReads = MaxCount /\ hbWrites = MaxCount /\ hbThreshold = 0
    /\ hbTimer = TRUE
    /\ hbPc = "idle"
    /\ thr = [t \in Threads |-> IdleThr]
    /\ wr = NoWr /\ rd = NoRd /\ call = NoCall
    /\ hist = NoHist

\* A Connection constructed with lazy=True (connection.py 38-61): CLOSED,
\* one exception list shared with IO, the heartbeat monitor not started.
InitClosed ==
    /\ connState = "CLOSED"
    /\ excLists = [i \in 0 .. MaxOpens |-> << >>]
    /\ connExc = ioExc
    /\ hbExc = -1
    /\ opens = 0
    /\ channels = NoChannels
    /\ lastChannelId = 0
    /\ connLock = 0
    /\ chanId = << >> /\ chanState = << >> /\ chanExc = << >>
    /\ chanBuf = << >>
    /\ rpcRequest = << >> /\ rpcResponse = << >> /\ rpcLock = << >>
    /\ sockState = "none"
    /\ ioRunning = FALSE
    /\ netIn = << >>
    /\ srvTodo = << >>
    /\ hbRunning = FALSE
    /\ hbReads = 0 /\ hbWrites = 0 /\ hbThreshold = 0
    /\ hbTimer = FALSE
    /\ hbPc = "idle"
    /\ thr = [t \in Threads |-> IdleThr]
    /\ wr = NoWr /\ rd = NoRd /\ call = NoCall
    /\ hist = NoHist

\* --------------------------------------------------------- channel lifecycle
NextAlloc ==
    \/ \E t \in Threads : ChannelCallClosed(t)
    \/ \E t \in Threads : ChannelCallFull(t)
    \/ \E t \in Threads, lazy \in BOOLEAN : ChannelCall(t, lazy)
    \/ \E t \in Threads, o \in Objs : OpenCall(t, o)
    \/ \E t \in Threads : OpenOkArrives(t)
    \/ \E t \in Threads : OpenReturn(t)
    \/ \E t \in Threads : OpenWaitConnError(t)
    \/ \E t \in Threads : OpenWaitTimeout(t)
    \/ \E t \in Threads, o \in Objs : CloseCallNotOpen(t, o)
    \/ \E t \in Threads, o \in Objs : CloseCall(t, o)
    \/ \E t \in Threads : CloseEnd(t)
    \/ \E t \in Threads : CloseWaitConnError(t)
    \/ \E o \in Objs : ServerClose(o)
    \/ \E t \in Threads : ConnCloseCall(t)
    \/ \E t \in Threads : ConnCloseCallClosed(t)
    \/ ConnCloseOkArrives
    \/ ServerConnectionClose
    \/ \E t \in Threads : ConnCloseWaitEnd(t)
    \/ \E t \in Threads : ConnCloseSnapshot(t)
    \/ \E t \in Threads : ConnCloseMark(t)
    \/ \E t \in Threads : ConnCloseClean(t)
    \/ \E t \in Threads : ConnCloseEnd(t)

SpecAlloc == InitOpened /\ [][NextAlloc]_vars

\* ------------------------------------------------------ heartbeat monitor
NextHb ==
    \/ ReadHeartbeatFrame
    \/ \E t \in Threads : ConnWriteFrame(t)
    \/ TickBegin
    \/ TickCheck
    \/ TickReset
    \/ \E t \in Threads : ConnCheckCallRaises(t)
    \/ \E t \in Threads : ConnCloseCall(t)
    \/ \E t \in Threads : ConnCloseCallClosed(t)
    \/ ConnCloseOkArrives
    \/ \E t \in Threads : ConnCloseWaitEnd(t)
    \/ \E t \in Threads : ConnCloseWaitError(t)
    \/ \E t \in Threads : ConnCloseSnapshot(t)
    \/ \E t \in Threads : ConnCloseEnd(t)

SpecHb == InitOpened /\ [][NextHb]_vars

\* ------------------------------------------------- requests on a channel
NextRpc ==
    \/ \E t \in Threads, o \in Objs, m \in Methods : RpcCall(t, o, m)
    \/ \E t \in Threads : RpcRegister(t)
    \/ \E t \in Threads : RpcReturn(t)
    \/ \E t \in Threads : RpcWaitConnError(t)
    \/ \E t \in Threads : RpcWaitChanError(t)
    \/ \E t \in Threads : RpcWaitChanClosed(t)
    \/ \E t \in Threads : RpcWaitTimeout(t)
    \/ \E t \in Threads, o \in Objs : ChanWriteFrameOk(t, o)
    \/ \E t \in Threads, o \in Objs : ChanWriteFrameConnError(t, o)
    \/ \E t \in Threads, o \in Objs : ChanWriteFrameChanError(t, o)
    \/ \E t \in Threads, o \in Objs : ChanWriteFrameClosed(t, o)
    \/ ServerAnswer
    \/ ReadFrame
    \/ \E o \in Objs : ServerClose(o)
    \/ \E t \in Threads, o \in Objs : CloseCallNotOpen(t, o)
    \/ \E t \in Threads, o \in Objs : CloseCall(t, o)
    \/ \E t \in Threads : CloseEnd(t)
    \/ \E t \in Threads : CloseWaitConnError(t)
    \/ TickBegin
    \/ TickCheck
    \/ TickReset

SpecRpc == InitRpc /\ [][NextRpc]_vars

\* rpc.py 115-119: the caller's thread keeps running its wait loop: it tests
\* the response list and calls check_for_errors again and again.  Time need
\* not pass, so the timeout is not forced.
WaitPoll ==
    \E t \in Threads : \/ RpcReturn(t)
                        \/ RpcWaitConnError(t)
                        \/ RpcWaitChanError(t)
                        \/ RpcWaitChanClosed(t)

\* Requests of one method on a channel that the server, or the application,
\* closes.
NextWait ==
    \/ \E t \in Threads, o \in Objs : RpcCall(t, o, "Basic.Qos")
    \/ \E t \in Threads : RpcRegister(t)
    \/ \E t \in Threads : RpcReturn(t)
    \/ \E t \in Threads : RpcWaitConnError(t)
    \/ \E t \in Threads : RpcWaitChanError(t)
    \/ \E t \in Threads : RpcWaitChanClosed(t)
    \/ \E t \in Threads : RpcWaitTimeout(t)
    \/ ServerAnswer
    \/ ReadFrame
    \/ \E o \in Objs : ServerClose(o)
    \/ ServerConnectionClose
    \/ \E t \in Threads, o \in Objs : CloseCall(t, o)
    \/ \E t \in Threads : CloseEnd(t)
    \/ \E t \in Threads : CloseWaitConnError(t)

SpecWait == InitRpc /\ [][NextWait]_vars /\ WF_vars(WaitPoll)

\* ------------------------------------------------ opening the connection
NextOpen ==
    \/ \E t \in Threads : ConnOpenCall(t)
    \/ \E t \in Threads : ConnOpenConnectFails(t)
    \/ \E t \in Threads : ConnOpenHandshake(t)
    \/ \E t \in Threads : ConnOpenReturn(t)
    \/ \E t \in Threads : ConnOpenWaitError(t)
    \/ \E t \in Threads : ConnOpenWaitTimeout(t)
    \/ ServerHandshake
    \/ ServerUnexpected
    \/ ReadChannel0Frame
    \/ ReadHeartbeatFrame
    \/ PeerReset
    \/ ReaderSocketError
    \/ ServerConnectionClose
    \/ \E t \in Threads : ConnWriteFrame(t)
    \/ \E t \in Threads : ConnCheckCallRaises(t)
    \/ \E t \in Threads : ConnCloseCall(t)
    \/ \E t \in Threads : ConnCloseCallClosed(t)
    \/ ConnCloseOkArrives
    \/ \E t \in Threads : ConnCloseWaitEnd(t)
    \/ \E t \in Threads : ConnCloseWaitError(t)
    \/ \E t \in Threads : ConnCloseSnapshot(t)
    \/ \E t \in Threads : ConnCloseEnd(t)
    \/ TickBegin
    \/ TickCheck
    \/ TickReset

SpecOpen == InitClosed /\ [][NextOpen]_vars

\* ------------------------------------------------------ closing and reclosing
NextClose ==
    \/ \E t \in Threads, o \in Objs : CloseCall(t, o)
    \/ \E t \in Threads, o \in Objs : CloseCallClosed(t, o)
    \/ \E t \in Threads : CloseEnd(t)
    \/ \E t \in Threads : CloseWaitConnError(t)
    \/ \E o \in Objs : ServerClose(o)
    \/ \E t \in Threads, o \in Objs : ChanWriteFrameOk(t, o)
    \/ \E t \in Threads : ConnCloseCall(t)
    \/ \E t \in Threads : ConnCloseCallClosed(t)
    \/ ConnCloseOkArrives
    \/ ServerConnectionClose
    \/ \E t \in Threads : ConnCloseWaitEnd(t)
    \/ \E t \in Threads : ConnCloseSnapshot(t)
    \/ \E t \in Threads : ConnCloseMark(t)
    \/ \E t \in Threads : ConnCloseClean(t)
    \/ \E t \in Threads : ConnCloseEnd(t)
    \/ ReadHeartbeatFrame

SpecClose == InitRpc /\ [][NextClose]_vars

\* ------------------------------------------------------ consuming messages
\* The steps of the thread inside build_inbound_messages.
BuildSteps ==
    \E t \in Threads :
        \/ BuildEnd(t)
        \/ BuildMessage(t)
        \/ BuildNone(t)
        \/ BuildNoneRaises(t)
        \/ BodyPiece(t)
        \/ BodyWaitRaises(t)
        \/ BodyDone(t)

NextBody ==
    \/ \E t \in Threads, o \in Objs, brk \in BOOLEAN : BuildCall(t, o, brk)
    \/ \E t \in Threads, o \in Objs : BuildCallRaises(t, o)
    \/ BuildSteps
    \/ \E o \in Objs, f \in ContentFrames : ReadContentFrame(o, f)
    \/ \E o \in Objs : ServerClose(o)
    \/ ServerConnectionClose
    \/ \E t \in Threads, o \in Objs : CloseCall(t, o)
    \/ \E t \in Threads : CloseEnd(t)
    \/ \E t \in Threads : CloseWaitConnError(t)

\* The thread inside build_inbound_messages keeps running; the peer owes
\* nothing.
SpecBody == InitRpc /\ [][NextBody]_vars /\ WF_vars(BuildSteps)

\* ------------------------------------------------- the correlator by itself
\* hist also keeps, for the properties only: frameIn, the name of the frame
\* of the last Rpc.on_frame call; taken, what that call returned; calls,
\* which changes value at every such call.
\* The response-name lists requests are registered with (channel.py 285,
\* basic.py 336).
RegSets == {ValidResponses(m) : m \in Methods} \cup {{"Basic.Ack", "Basic.Nack"}}

\* The names of the frames handed to Rpc.on_frame (channel.py 215).
FrameNames == RespNames \cup {"Basic.Deliver"}

\* rpc.py 43-50: register_request(valid) on the Rpc of Channel o, for a
\* list that shares no name with a registered one.
RegisterRequestCall(o, valid) ==
    /\ \A n \in valid : rpcRequest[o][n] = 0
    /\ \E u \in FreeUuids(rpcRequest[o], rpcResponse[o]) :
          LET r == RegisterRequest(rpcRequest[o], rpcResponse[o], valid, u) IN
            /\ rpcRequest' = [rpcRequest EXCEPT ![o] = r.request]
            /\ rpcResponse' = [rpcResponse EXCEPT ![o] = r.response]
    /\ UNCHANGED << connVars, mapVars, chanVars, wireVars, rpcLock, ioVars, hbVars, thr, hist >>

\* rpc.py 29-41: on_frame(frame_in) on the Rpc of Channel o.
RpcOnFrame(o, name) ==
    /\ \A u \in Uuids : Len(rpcResponse[o][u].frames) < MaxInbound
    /\ rpcResponse' =
          IF RpcTakes(rpcRequest[o], name)
          THEN [rpcResponse EXCEPT ![o] = RpcStore(rpcRequest[o], @, name)]
          ELSE rpcResponse
    /\ hist' = [hist EXCEPT !.frameIn = name,
                            !.taken = RpcTakes(rpcRequest[o], name),
                            !.calls = ~@]
    /\ UNCHANGED << connVars, mapVars, chanVars, wireVars, rpcRequest, rpcLock, ioVars,
                    hbVars, thr >>

NextCorr ==
    \/ \E o \in Objs, valid \in RegSets : RegisterRequestCall(o, valid)
    \/ \E o \in Objs, name \in FrameNames : RpcOnFrame(o, name)

SpecCorr == InitRpc /\ [][NextCorr]_vars

\* ------------------------------------------------------- channel errors
\* Two channels: the application sends its requests on the first and
\* consumes on the second; the server sends content, consumer tags,
\* Basic.Return and Channel.Close, and answers no request.
Tags == 1 .. MaxTags

NextErr ==
    \/ ReadContentFrame(2, Deliver)
    \/ \E tag \in Tags : ReadConsumeOk(2, tag)
    \/ \E o \in Objs : BasicReturn(o)
    \/ \E o \in Objs : ServerClose(o)
    \/ \E t \in Threads : RpcCall(t, 1, "Basic.Qos")
    \/ \E t \in Threads : RpcRegister(t)
    \/ \E t \in Threads : RpcWaitChanError(t)
    \/ \E t \in Threads : RpcWaitTimeout(t)
    \/ \E t \in Threads, o \in Objs : ChanWriteFrameOk(t, o)
    \/ \E t \in Threads, o \in Objs : ChanWriteFrameChanError(t, o)

SpecErr == InitPair /\ [][NextErr]_vars

\* ------------------------------------------------------ connection errors
\* Two channels; the server closes the connection, the application checks
\* for errors and opens the connection again.
NextFatal ==
    \/ \E t \in Threads : ConnCheckCall(t)
    \/ \E t \in Threads, o \in Objs : ChanCheckCall(t, o)
    \/ ServerConnectionClose
    \/ \E o \in Objs : BasicReturn(o)
    \/ \E t \in Threads : ConnOpenCall(t)
    \/ \E t \in Threads : ConnOpenHandshake(t)
    \/ ServerHandshake
    \/ ReadChannel0Frame
    \/ \E t \in Threads : ConnOpenReturn(t)

SpecFatal == InitPair /\ [][NextFatal]_vars

\* The codec alone: a frame is marshalled, possibly damaged at its last
\* byte, and unmarshalled.
NextCodec ==
    \/ \E f \in CodecFrames : \E c \in CodecChannels : MarshalCall(f, c)
    \/ \E b \in {0, 65} : Corrupt(b)
    \/ UnmarshalCall
    \/ CallReturn
SpecCodec == InitOpened /\ [][NextCodec]_vars

\* Two threads writing frames and batches through one connection.
NextWrite ==
    \/ \E x \in Writers : WriteFramesCall(x, WriteBatch(x), x - 1)
    \/ \E x \in Writers : WrAcquire(x)
    \/ \E x \in Writers : \E n \in 1 .. 18 : WrSend(x, n)
    \/ \E x \in Writers : WrWouldBlock(x)
    \/ \E x \in Writers : WrSocketError(x)
    \/ \E x \in Writers : WrRelease(x)
SpecWrite == InitOpened /\ [][NextWrite]_vars

\* basic.publish without confirms, for every body and frame limit.
NextChunk ==
    \/ \E body \in PublishBodies : \E f \in 1 .. MaxFrame :
          PublishCall(1, 1, body, "str", "str", f, FALSE, FALSE)
    \/ PublishWrite(1)
SpecChunk == InitRpc /\ [][NextChunk]_vars

\* The body the application publishes in SpecPublish.
OneByte == << 65 >>

\* basic.publish with and without confirms, the server and the reader
\* task.
NextPublish ==
    \/ \E c \in BOOLEAN : \E m \in {x \in BOOLEAN : x => c} :
          PublishCall(1, 1, OneByte, "str", "str", 1, c, m)
    \/ PublishRegister(1)
    \/ PublishWrite(1)
    \/ PublishWriteRaises(1)
    \/ \E name \in {"Basic.Ack", "Basic.Nack"} : ServerConfirm(name)
    \/ ReadFrame
    \/ PublishReturn(1)
    \/ PublishWaitRaises(1)
    \/ PublishWaitTimeout(1)
    \/ BasicReturn(1)
    \/ ServerConnectionClose
    \/ ServerClose(1)
SpecPublish == InitRpc /\ [][NextPublish]_vars

\* The calls that check their arguments, with arguments of every kind.
NextArgs ==
    \/ \E kinds \in {<< "str", "str" >>, << "int", "str" >>, << "str", "none" >>} :
          PublishCall(1, 1, OneByte, kinds[1], kinds[2], 1, FALSE, FALSE)
    \/ PublishWrite(1)
    \/ PublishWriteRaises(1)
    \/ \E k \in ArgKinds : AckCall(1, 1, k)
    \/ \E k \in ArgKinds : \E x \in {"str", "none"} : CloseCallInvalid(1, 1, k, x)
    \/ \E k \in ArgKinds : ChannelCallInvalid(1, k)
    \/ BasicReturn(1)
    \/ ServerConnectionClose
    \/ ServerClose(1)
SpecArgs == InitRpc /\ [][NextArgs]_vars

\* The reader task alone, fed by the server in fragments of any size.
NextRead ==
    \/ \E s \in {x \in StreamFrames : Len(hist.stream) < MaxRouted} : ServerSends(s)
    \/ \E data \in {x \in CorruptData : Len(hist.stream) < MaxRouted} :
          ServerSendsCorrupt(data)
    \/ \E n \in 1 .. 40 : Receive(n)
SpecRead == InitRpc /\ [][NextRead]_vars

\* One delivery from the server, received in fragments of any size, and a
\* consumer that builds the messages of channel 1.
NextMsg ==
    \/ \E s \in {x \in MsgFrames : WellFormed(Append(hist.stream, x))} : ServerSends(s)
    \/ \E n \in 1 .. 40 : Receive(n)
    \/ BuildCall(1, 1, FALSE)
    \/ BuildMessage(1)
    \/ BuildNone(1)
    \/ BodyPiece(1)
    \/ BodyDone(1)
SpecMsg == InitRpc /\ [][NextMsg]_vars

\* Requests of one method that are answered or time out, with every step
\* of Rpc.on_frame on the reader task interleaved with the caller.
NextRace ==
    \/ \E t \in Threads, o \in Objs : RpcCall(t, o, "Basic.Qos")
    \/ \E t \in Threads : RpcRegister(t)
    \/ \E t \in Threads : RpcReturn(t)
    \/ \E t \in Threads : RpcWaitTimeout(t)
    \/ ServerAnswer
    \/ OnFrameEnter
    \/ OnFrameLookup
    \/ OnFrameTest
    \/ OnFrameAppend
    \/ OnFrameAssign
SpecRace == InitRpc /\ [][NextRace]_vars

\* A consumer that builds the messages of channel 1, step by step, while
\* the reader task appends content frames and handles a Channel.Close of
\* the server.
NextPop ==
    \/ \E brk \in BOOLEAN : BuildCall(1, 1, brk)
    \/ BuildCallRaises(1, 1)
    \/ BuildEnd(1)
    \/ BuildLenTest(1)
    \/ BuildPopFirst(1)
    \/ BuildPopSecond(1)
    \/ BuildNone(1)
    \/ BuildNoneRaises(1)
    \/ BodyTestInbound(1)
    \/ BodyPop(1)
    \/ BodyWaitRaises(1)
    \/ BodyDone(1)
    \/ \E f \in ContentFrames : ReadContentFrame(1, f)
    \/ ServerClose(1)
SpecPop == InitRpc /\ [][NextPop]_vars

\* ---------------------------------------------------------------- Basic.get
\* pamqp Basic.GetOk and Basic.GetEmpty, reduced like the content frames.
GetOk == [name |-> "Basic.GetOk", size |-> 0]
GetEmpty == [name |-> "Basic.GetEmpty", size |-> 0]

\* channel.py 28.
CONTENT_FRAME == {"Basic.Deliver", "ContentHeader", "ContentBody"}

\* A variant that leaves out the ContentBody.
GetResponsesNoBody == {"Basic.GetOk", "Basic.GetEmpty", "ContentHeader"}

\* basic.py 306-308: the names _get_message registers its request for.
GetResponses == {"Basic.GetOk", "Basic.GetEmpty", "ContentHeader", "ContentBody"}

\* The frames the server sends to a Channel in the model.
GetFrames == {GetOk, GetEmpty, Deliver}
                 \cup {Header(n) : n \in 0 .. MaxBody}
                 \cup {Body(n) : n \in 0 .. MaxBody}

\* channel.py 43 and rpc.py 19: a threading.Lock object is true in a boolean
\* context.
Truthy(lock) == lock \in {"channel.lock", "rpc.lock"}

\* Python's 'a and b': a if a is false, else b.
PyAnd(a, b) == IF Truthy(a) THEN b ELSE a

\* basic.py 87: the context managers the with statement of get() enters:
\* the one value of 'self._channel.lock and self._channel.rpc.lock'.
GetLocks == {PyAnd("channel.lock", "rpc.lock")}

\* The positions of a caller inside the with block of get().
GetPcs == {"get_reg", "get_write", "get_ok", "get_hdr", "get_body"}

\* channel.py 391 and basic.py 87: thread t is inside a block that holds
\* Channel.lock of Channel o.
HoldsChannelLock(t, o) ==
    /\ thr[t].obj = o
    /\ \/ thr[t].pc \in {"pop1", "pop2", "body", "piece"}
       \/ thr[t].pc \in GetPcs /\ "channel.lock" \in GetLocks

\* basic.py 82-87: get() on a Channel without consumer tags enters its with
\* block.
GetCall(t, o) ==
    /\ thr[t].pc = "idle"
    /\ o \in Objs
    /\ chanBuf[o].tags = {}
    /\ "rpc.lock" \in GetLocks => rpcLock[o] = 0
    /\ \A x \in Threads : "channel.lock" \in GetLocks => ~HoldsChannelLock(x, o)
    /\ rpcLock' = IF "rpc.lock" \in GetLocks THEN [rpcLock EXCEPT ![o] = t]
                  ELSE rpcLock
    /\ thr' = [thr EXCEPT ![t] = [IdleThr EXCEPT !.pc = "get_reg", !.obj = o]]
    /\ hist' = [hist EXCEPT !.outcome = "none", !.frameIn = "none",
                            !.taken = FALSE]
    /\ UNCHANGED << connVars, mapVars, chanVars, wireVars, rpcRequest, rpcResponse,
                    ioVars, hbVars >>

\* basic.py 306-308 with rpc.py 43-50: _get_message registers its request.
GetRegister(t) ==
    /\ thr[t].pc = "get_reg"
    /\ LET o == thr[t].obj IN
       \E u \in FreeUuids(rpcRequest[o], rpcResponse[o]) :
        LET r == RegisterRequest(rpcRequest[o], rpcResponse[o], GetResponses, u) IN
        /\ rpcRequest' = [rpcRequest EXCEPT ![o] = r.request]
        /\ rpcResponse' = [rpcResponse EXCEPT ![o] = r.response]
        /\ thr' = [thr EXCEPT ![t].pc = "get_write", ![t].uuid = u]
    /\ UNCHANGED << connVars, mapVars, chanVars, wireVars, rpcLock, ioVars, hbVars, hist >>

\* basic.py 321-322 and 87: the finally clause removes the request and the with
\* block releases what it holds; get() ends with the given outcome.
GetLeaves(t, how) ==
    LET o == thr[t].obj
        r == RpcRemove(rpcRequest[o], rpcResponse[o], thr[t].uuid) IN
    /\ rpcRequest' = [rpcRequest EXCEPT ![o] = r.request]
    /\ rpcResponse' = [rpcResponse EXCEPT ![o] = r.response]
    /\ rpcLock' = IF "rpc.lock" \in GetLocks THEN [rpcLock EXCEPT ![o] = 0]
                  ELSE rpcLock
    /\ thr' = [thr EXCEPT ![t] = IdleThr]
    /\ hist' = [hist EXCEPT !.outcome = how]

\* basic.py 310 with channel.py 335-336: the check of write_frame passes and
\* the Basic.Get frame is written.
GetWrite(t) ==
    /\ thr[t].pc = "get_write"
    /\ ChanCheckPasses(thr[t].obj)
    /\ hbWrites' = Register(hbWrites)
    /\ excLists' = WriteErr(excLists)
    /\ thr' = [thr EXCEPT ![t].pc = "get_ok"]
    /\ UNCHANGED << connState, connExc, hbExc, opens, mapVars, chanVars, wireVars, rpcVars,
                    ioVars, hbRunning, hbReads, hbThreshold, hbTimer, hbPc, hist >>

\* basic.py 310 with channel.py 335: the check of write_frame raises.
GetWriteRaises(t) ==
    /\ thr[t].pc = "get_write"
    /\ ChanCheckRaises(t, thr[t].obj)
    /\ GetLeaves(t, "error")
    /\ UNCHANGED << connExc, hbExc, opens, lastChannelId, connLock, chanId, wireVars, chanBuf,
                    netIn, srvTodo, hbReads, hbWrites, hbThreshold, hbPc >>

\* basic.py 311-315 with rpc.py 89-91: the first frame stored for the
\* request is taken; a Basic.GetEmpty makes get() return None.
GetTakeOk(t) ==
    /\ thr[t].pc = "get_ok"
    /\ LET o == thr[t].obj
           frames == rpcResponse[o][thr[t].uuid].frames IN
        /\ frames # << >>
        /\ IF Head(frames).name = "Basic.GetEmpty"
           THEN GetLeaves(t, "empty")
           ELSE /\ rpcResponse' = [rpcResponse EXCEPT ![o][thr[t].uuid].frames = Tail(@)]
                /\ thr' = [thr EXCEPT ![t].pc = "get_hdr"]
                /\ UNCHANGED << rpcRequest, rpcLock, hist >>
    /\ UNCHANGED << connVars, mapVars, chanVars, wireVars, ioVars, hbVars >>

\* basic.py 316-320 and 371: the next frame is taken as the content header;
\* with a body_size of 0 the message is complete.
GetTakeHeader(t) ==
    /\ thr[t].pc = "get_hdr"
    /\ LET o == thr[t].obj
           frames == rpcResponse[o][thr[t].uuid].frames IN
        /\ frames # << >>
        /\ IF Head(frames).size = 0
           THEN GetLeaves(t, "message")
           ELSE /\ rpcResponse' = [rpcResponse EXCEPT ![o][thr[t].uuid].frames = Tail(@)]
                /\ thr' = [thr EXCEPT ![t].pc = "get_body", ![t].body = 0,
                                      ![t].bodySize = Head(frames).size]
                /\ UNCHANGED << rpcRequest, rpcLock, hist >>
    /\ UNCHANGED << connVars, mapVars, chanVars, wireVars, ioVars, hbVars >>

\* basic.py 371-376: _get_content_body takes the next piece; an empty piece
\* or a body of the announced size ends the loop and get() returns the
\* message.
GetTakeBody(t) ==
    /\ thr[t].pc = "get_body"
    /\ LET o == thr[t].obj
           frames == rpcResponse[o][thr[t].uuid].frames IN
        /\ frames # << >>
        /\ IF Head(frames).size = 0 \/ thr[t].body + Head(frames).size >= thr[t].bodySize
           THEN GetLeaves(t, "message")
           ELSE /\ rpcResponse' = [rpcResponse EXCEPT ![o][thr[t].uuid].frames = Tail(@)]
                /\ thr' = [thr EXCEPT ![t].body = @ + Head(frames).size]
                /\ UNCHANGED << rpcRequest, rpcLock, hist >>
    /\ UNCHANGED << connVars, mapVars, chanVars, wireVars, ioVars, hbVars >>

\* rpc.py 115-116: nothing is stored and the check in the wait loop raises.
GetWaitRaises(t) ==
    /\ thr[t].pc \in {"get_ok", "get_hdr", "get_body"}
    /\ rpcResponse[thr[t].obj][thr[t].uuid].frames = << >>
    /\ ChanCheckRaises(t, thr[t].obj)
    /\ GetLeaves(t, "error")
    /\ UNCHANGED << connExc, hbExc, opens, lastChannelId, connLock, chanId, wireVars, chanBuf,
                    netIn, srvTodo, hbReads, hbWrites, hbThreshold, hbPc >>

\* rpc.py 117-118, 121-139: nothing is stored within the timeout.
GetWaitTimeout(t) ==
    /\ thr[t].pc \in {"get_ok", "get_hdr", "get_body"}
    /\ rpcResponse[thr[t].obj][thr[t].uuid].frames = << >>
    /\ ChanCheckPasses(thr[t].obj)
    /\ GetLeaves(t, "timeout")
    /\ UNCHANGED << connVars, mapVars, chanVars, wireVars, ioVars, hbVars >>

\* connection.py 287-308 with channel.py 212-219 and rpc.py 29-41: the
\* reader task hands frame f to Channel o: a frame whose name a request is
\* registered for is stored for that request; else a content frame is
\* appended to the inbound list; a Basic.GetOk or Basic.GetEmpty nobody
\* waits for ends in the 'Unhandled Frame' log line.
ChanOnFrame(o, f) ==
    /\ ioRunning /\ sockState = "up"
    /\ channels[chanId[o]] = o
    /\ IF RpcTakes(rpcRequest[o], f.name)
       THEN /\ Len(rpcResponse[o][rpcRequest[o][f.name]].frames) < MaxInbound
            /\ rpcResponse' = [rpcResponse EXCEPT ![o][rpcRequest[o][f.name]] =
                                  [present |-> TRUE, frames |-> Append(@.frames, f)]]
            /\ UNCHANGED chanBuf
       ELSE IF f.name \in CONTENT_FRAME
       THEN /\ Len(chanBuf[o].inbound) < MaxInbound
            /\ chanBuf' = [chanBuf EXCEPT ![o].inbound = Append(@, f)]
            /\ UNCHANGED rpcResponse
       ELSE UNCHANGED << chanBuf, rpcResponse >>
    /\ hbReads' = Register(hbReads)
    /\ hist' = [hist EXCEPT !.frameIn = f.name,
                            !.taken = RpcTakes(rpcRequest[o], f.name)]
    /\ UNCHANGED << connVars, mapVars, chanId, chanState, chanExc, wireVars, rpcRequest,
                    rpcLock, ioVars, hbRunning, hbWrites, hbThreshold, hbTimer, hbPc, thr >>

\* The frames Channel o holds for its consumer and for its requests.
RECURSIVE StoredFrames(_, _)
StoredFrames(o, U) ==
    IF U = {} THEN 0
    ELSE LET u == CHOOSE x \in U : TRUE IN
         Len(rpcResponse[o][u].frames) + StoredFrames(o, U \ {u})
Queued(o) == Len(chanBuf[o].inbound) + StoredFrames(o, Uuids)

NextGet ==
    \/ GetCall(1, 1)
    \/ GetRegister(1)
    \/ GetWrite(1)
    \/ GetWriteRaises(1)
    \/ GetTakeOk(1)
    \/ GetTakeHeader(1)
    \/ GetTakeBody(1)
    \/ GetWaitRaises(1)
    \/ GetWaitTimeout(1)
    \/ \E f \in {x \in GetFrames : Queued(1) < MaxRouted} : ChanOnFrame(1, f)
    \/ ServerClose(1)
SpecGet == InitRpc /\ [][NextGet]_vars

\* --------------------------------------------- Channel.open, call by call
\* hist also keeps, for the properties only: openOk, the Channels a
\* Channel.OpenOk was handed to since their last open() wrote Channel.Open.
\* connection.py 96-101: a connection with one lazy channel: the Channel is
\* in the mapping and was never opened.
InitLazy ==
    /\ connState = "OPEN"
    /\ excLists = [i \in 0 .. MaxOpens |-> << >>]
    /\ connExc = 1
    /\ hbExc = 1
    /\ opens = 1
    /\ channels = [NoChannels EXCEPT ![1] = 1]
    /\ lastChannelId = 1
    /\ connLock = 0
    /\ chanId = << 1 >> /\ chanState = << "CLOSED" >> /\ chanExc = << << >> >>
    /\ chanBuf = << NoBuf >>
    /\ rpcRequest = << NoRequests >>
    /\ rpcResponse = << NoResponses >>
    /\ rpcLock = << 0 >>
    /\ sockState = "up"
    /\ ioRunning = TRUE
    /\ netIn = << >>
    /\ srvTodo = << >>
    /\ hbRunning = TRUE
    /\ hbReads = 0 /\ hbWrites = 0 /\ hbThreshold = 0
    /\ hbTimer = TRUE
    /\ hbPc = "idle"
    /\ thr = [t \in Threads |-> IdleThr]
    /\ wr = NoWr /\ rd = NoRd /\ call = NoCall
    /\ hist = NoHist

\* channel.py 243-247 with 281-283: open() empties the inbound and the error
\* list, sets OPENING, and rpc_request takes the Rpc's lock and writes
\* Channel.Open.
ChanOpenCall(t, o) ==
    /\ thr[t].pc = "idle"
    /\ o \in Objs
    /\ rpcLock[o] = 0
    /\ Len(srvTodo) < MaxInflight
    /\ chanState' = [chanState EXCEPT ![o] = "OPENING"]
    /\ chanExc' = [chanExc EXCEPT ![o] = << >>]
    /\ chanBuf' = [chanBuf EXCEPT ![o].inbound = << >>]
    /\ rpcLock' = [rpcLock EXCEPT ![o] = t]
    /\ hbWrites' = Register(hbWrites)
    /\ excLists' = WriteErr(excLists)
    /\ srvTodo' = IF sockState = "up" THEN Append(srvTodo, << chanId[o], "Channel.Open" >>)
                  ELSE srvTodo
    /\ thr' = [thr EXCEPT ![t] = [IdleThr EXCEPT !.pc = "chopen_written", !.obj = o,
                                                 !.frame = "Channel.Open"]]
    /\ hist' = [hist EXCEPT !.outcome = "none", !.openOk = @ \ {o}]
    /\ UNCHANGED << connState, connExc, hbExc, opens, mapVars, chanId, wireVars, rpcRequest,
                    rpcResponse, sockState, ioRunning, netIn, hbRunning, hbReads,
                    hbThreshold, hbTimer, hbPc >>

\* channel.py 285 with rpc.py 43-50: the request of open() is registered.
ChanOpenRegister(t) ==
    /\ thr[t].pc = "chopen_written"
    /\ LET o == thr[t].obj IN
       \E u \in FreeUuids(rpcRequest[o], rpcResponse[o]) :
        LET r == RegisterRequest(rpcRequest[o], rpcResponse[o],
                                 ValidResponses(thr[t].frame), u) IN
        /\ rpcRequest' = [rpcRequest EXCEPT ![o] = r.request]
        /\ rpcResponse' = [rpcResponse EXCEPT ![o] = r.response]
        /\ thr' = [thr EXCEPT ![t].pc = "chopen_wait", ![t].uuid = u]
    /\ UNCHANGED << connVars, mapVars, chanVars, wireVars, rpcLock, ioVars, hbVars, hist >>

\* A variant in which the wait ends as soon as the request is registered.
ResponseStoredAlways(resp, uuid) == resp[uuid].present

\* rpc.py 115: the test of the wait loop: a frame is stored for the request.
ResponseStored(resp, uuid) == resp[uuid].frames # << >>

\* rpc.py 115, 89-98 and channel.py 248: the wait ends on a stored frame, the
\* request is removed and open() sets the state OPEN.
ChanOpenReturn(t) ==
    /\ thr[t].pc = "chopen_wait"
    /\ LET o == thr[t].obj IN
        /\ ResponseStored(rpcResponse[o], thr[t].uuid)
        /\ LET r == RpcRemove(rpcRequest[o], rpcResponse[o], thr[t].uuid) IN
            /\ rpcRequest' = [rpcRequest EXCEPT ![o] = r.request]
            /\ rpcResponse' = [rpcResponse EXCEPT ![o] = r.response]
        /\ rpcLock' = [rpcLock EXCEPT ![o] = 0]
        /\ chanState' = [chanState EXCEPT ![o] = "OPEN"]
    /\ thr' = [thr EXCEPT ![t] = IdleThr]
    /\ hist' = [hist EXCEPT !.outcome = "ok"]
    /\ UNCHANGED << connVars, mapVars, chanId, chanExc, chanBuf, wireVars, ioVars, hbVars >>

\* rpc.py 116 with channel.py 177-186: the check in the wait loop raises out
\* of open().
ChanOpenWaitRaises(t) ==
    /\ thr[t].pc = "chopen_wait"
    /\ rpcResponse[thr[t].obj][thr[t].uuid].frames = << >>
    /\ ChanCheckRaises(t, thr[t].obj)
    /\ rpcLock' = [rpcLock EXCEPT ![thr[t].obj] = 0]
    /\ thr' = [thr EXCEPT ![t] = IdleThr]
    /\ hist' = [hist EXCEPT !.outcome = "error"]
    /\ UNCHANGED << connExc, hbExc, opens, lastChannelId, connLock, chanId, wireVars, chanBuf,
                    rpcRequest, rpcResponse, netIn, srvTodo, hbReads, hbWrites,
                    hbThreshold, hbPc >>

\* rpc.py 117-118, 121-139: nothing stored within the timeout; the request
\* is removed and the timeout error raised out of open().
ChanOpenWaitTimeout(t) ==
    /\ thr[t].pc = "chopen_wait"
    /\ LET o == thr[t].obj IN
        /\ rpcResponse[o][thr[t].uuid].frames = << >>
        /\ ChanCheckPasses(o)
        /\ LET r == RpcRemove(rpcRequest[o], rpcResponse[o], thr[t].uuid) IN
            /\ rpcRequest' = [rpcRequest EXCEPT ![o] = r.request]
            /\ rpcResponse' = [rpcResponse EXCEPT ![o] = r.response]
        /\ rpcLock' = [rpcLock EXCEPT ![o] = 0]
    /\ thr' = [thr EXCEPT ![t] = IdleThr]
    /\ hist' = [hist EXCEPT !.outcome = "timeout"]
    /\ UNCHANGED << connVars, mapVars, chanVars, wireVars, ioVars, hbVars >>

NextChanOpen ==
    \/ ChanOpenCall(1, 1)
    \/ ChanOpenRegister(1)
    \/ ChanOpenReturn(1)
    \/ ChanOpenWaitRaises(1)
    \/ ChanOpenWaitTimeout(1)
    \/ ServerAnswer
    \/ ReadFrame
    \/ ServerClose(1)
    \/ BasicReturn(1)
SpecChanOpen == InitLazy /\ [][NextChanOpen]_vars

\* ------------------------------------------------------- returned messages
\* One OPEN channel: the server returns messages and closes the channel
\* and answers no request; the application checks for errors, writes frames
\* and makes requests.
NextReturn ==
    \/ BasicReturn(1)
    \/ ChanCheckCall(1, 1)
    \/ ChanWriteFrameOk(1, 1)
    \/ ChanWriteFrameChanError(1, 1)
    \/ RpcCall(1, 1, "Basic.Qos")
    \/ RpcRegister(1)
    \/ RpcWaitChanError(1)
    \/ RpcWaitTimeout(1)
    \/ ServerClose(1)
SpecReturn == InitRpc /\ [][NextReturn]_vars

\* ------------------------------------------------------ deliveries in order
\* The content frames the server sends on channel 1, in any order: a
\* Basic.Deliver, a ContentHeader announcing 0 or 1 byte, a ContentBody of
\* 1 byte.
OrderFrames ==
    {[channel_id |-> 1, frame_in |-> f] :
        f \in {MethodFrame("Basic.Deliver", 1), ContentHeaderFrame(0),
               ContentHeaderFrame(1), ContentBodyFrame(Chunk(1))}}

\* The reader task hands every frame it has received to the Channel; a
\* consumer builds the messages of channel 1.
NextOrder ==
    \/ \E s \in OrderFrames : ServerSends(s)
    \/ \E n \in {Len(rd.sockIn)} : Receive(n)
    \/ BuildCall(1, 1, FALSE)
    \/ BuildMessage(1)
    \/ BuildNone(1)
    \/ BodyPiece(1)
    \/ BodyDone(1)
SpecOrder == InitRpc /\ [][NextOrder]_vars

\* ------------------------------------------------- channel id properties
Min(S) == CHOOSE x \in S : \A y \in S : x <= y
FreeIds == ChanIds \ Held(channels, chanState)
\* A step in which channel() allocated an id, and the id it allocated.
AllocStep == Len(chanId') = Len(chanId) + 1
NewId == chanId'[Len(chanId')]
\* A step in which channel() raised 'reached the maximum number of channels'.
FullStep == hist'.fullFlip # hist.fullFlip
\* The Channel allocated last (0: none yet).
Recent == Len(chanId)

\* C4: in every reachable state no two Channel objects that are both in a
\* state other than CLOSED carry the same channel id.
C4_LiveIdsUnique ==
    \A a \in Objs : \A b \in Objs :
        (a # b /\ chanState[a] # "CLOSED" /\ chanState[b] # "CLOSED")
            => chanId[a] # chanId[b]

\* C5 as claimed: channel() always assigns the smallest id of
\* [1, max_channels] that is not held by a non-CLOSED channel.
C5_LowestFree == [][AllocStep => NewId = Min(FreeIds)]_vars

\* C5 as amended: channel() assigns the smallest free id that is not below
\* _last_channel_id (the id assigned last, unless a call has failed since),
\* and the smallest free id of [1, max_channels] when there is none.
C5_LowestFromLast ==
    [][AllocStep =>
        LET from == IF lastChannelId = 0 THEN 1 ELSE lastChannelId
            upper == {c \in FreeIds : c >= from}
        IN  NewId = IF upper # {} THEN Min(upper) ELSE Min(FreeIds)]_vars

\* C5 witness: an allocation has passed over a lower id that was free.
C5_Witness == hist.skipped

C7_FullRaises ==
    [][((AllocStep \/ FullStep) /\ Held(channels, chanState) = ChanIds)
          => (FullStep /\ ~AllocStep /\ channels' = channels)]_vars

\* C7 witness: a call has raised with every id held, one of them by a
\* Channel that is neither OPEN nor CLOSED.
C7_Witness ==
    /\ hist.failed
    /\ Held(channels, chanState) = ChanIds
    /\ \E c \in ChanIds : chanState[channels[c]] \in {"OPENING", "CLOSING"}

C1_HandedResponseReturned == ~(hist.outcome = "timeout" /\ hist.handed)

\* C2: no request frame reaches the socket when the operation was called on
\* a CLOSED Channel.
C2_NoWriteWhenClosed == ~hist.wroteClosed

\* C9: an rpc_request that started after the heartbeat monitor declared the
\* connection dead does not return a response.
C9_NoReturnAfterDead == ~(hist.outcome = "ok" /\ hist.deadAtStart)

\* ------------------------------------------------- connection properties
\* C3: after Connection.open() has returned, every step that appends a socket error to
\* the list of the I/O layer (the reader task's, or a socket write's) appends
\* it to the list Connection.check_for_errors reads.
C3_SocketErrorVisible ==
    [][(hist.opened = "ok" /\ excLists'[ioExc] # excLists[ioExc])
          => excLists'[connExc] # excLists[connExc]]_vars

\* C10: a Connection.open() that raised leaves the state CLOSED.
C10_FailedOpenLeavesClosed == hist.opened = "error" => connState = "CLOSED"

\* ------------------------------------------------------- close properties
\* A step in which Connection.close() returns to its caller.
CloseReturns == \E t \in Threads : thr[t].pc = "cclose_loop" /\ thr'[t].pc = "idle"

\* C11: when Connection.close() returns, the connection is CLOSED, every
\* Channel that was in the mapping when it was called is CLOSED, the mapping
\* is empty, the heartbeat monitor is stopped with no timer, and the socket
\* is gone with the reader task stopped.
C11_CloseLeavesAllClosed ==
    [][CloseReturns =>
          /\ connState' = "CLOSED"
          /\ \A o \in hist.atClose : chanState'[o] = "CLOSED"
          /\ channels' = NoChannels
          /\ ~hbRunning' /\ ~hbTimer'
          /\ sockState' = "none" /\ ~ioRunning']_vars

\* Connection.close() is about to return and Channels were in the mapping
\* when it was called.
C11_Witness ==
    \E t \in Threads : thr[t].pc = "cclose_loop" /\ thr[t].ids = {}
                        /\ Cardinality(hist.atClose) >= 2

\* No frame is handed to the socket layer in this step.
NoWrite == hbWrites' = hbWrites /\ srvTodo' = srvTodo /\ excLists' = excLists

\* C12: Channel.close() on a CLOSED Channel writes nothing and changes no
\* state; every step of a Connection.close() called on a CLOSED connection
\* writes nothing, the call returns (it does not raise) and the state is
\* CLOSED when it does.
C12_CloseIdempotent ==
    [][/\ hist'.reclosed # hist.reclosed
            => NoWrite /\ chanState' = chanState /\ connState' = connState
                       /\ \A t \in Threads : thr'[t].pc = "idle"
       /\ \A t \in Threads :
            (hist.idem /\ thr'[t] # thr[t])
            => /\ NoWrite
               /\ connState' = "CLOSED"
               /\ thr'[t].pc = "idle" => thr[t].ids = {}]_vars

\* Channel.close() has been called on a CLOSED Channel, and a
\* Connection.close() called on a CLOSED connection is about to return, with
\* no write registered that would hide another one.
C12_Witness ==
    /\ hist.reclosed /\ hist.idem /\ hbWrites = 0
    /\ \E t \in Threads : thr[t].pc = "cclose_loop" /\ thr[t].ids = {}

\* ----------------------------------------------------- RPC wait properties
\* Thread t is in the wait loop of a request whose Channel is CLOSED or has
\* an error recorded, or whose connection is CLOSED or has an error recorded.
BrokenWait(t) ==
    /\ thr[t].pc = "rpc_wait"
    /\ \/ excLists[connExc] # << >>
       \/ connState = "CLOSED"
       \/ chanState[thr[t].obj] = "CLOSED"
       \/ chanExc[thr[t].obj] # << >>

C14_BodyWaitEnds ==
    \A t \in Threads : (thr[t].pc = "body") ~> (thr[t].pc # "body")

\* -------------------------------------------------------- frame correlation
\* The names the request uuid of Channel o is registered for.
RegisteredFor(o, uuid) == {n \in RespNames : rpcRequest[o][n] = uuid}

StoredFramesRegistered ==
    \A o \in Objs, u \in Uuids :
        \A i \in 1 .. Len(rpcResponse[o][u].frames) :
            rpcResponse[o][u].frames[i] \in RegisteredFor(o, u)

UnregisteredNotConsumed ==
    (/\ hist'.calls # hist.calls
     /\ \A o \in Objs : hist'.frameIn \notin RespNames \/ rpcRequest[o][hist'.frameIn] = 0)
        => (~hist'.taken /\ rpcResponse' = rpcResponse /\ rpcRequest' = rpcRequest)

\* C15: with pairwise disjoint response-name lists, every frame on_frame
\* stored for a request has a name of that request's list, and a frame whose
\* name no request is registered for is not consumed: on_frame returns False
\* and no list changes.
C15_FramesCorrelated ==
    [](StoredFramesRegistered) /\ [][UnregisteredNotConsumed]_vars

\* Two requests are pending, each has a frame stored, and the last frame
\* handed to on_frame was refused.
C15_Witness ==
    /\ \A u \in 1 .. 2 : rpcResponse[1][u].frames # << >>
    /\ rpcResponse[1][1].frames # rpcResponse[1][2].frames
    /\ hist.frameIn \in RespNames
    /\ ~hist.taken

\* ---------------------------------------------------------------- RPC timeout
\* The step of thread t in which its RPC wait raises the timeout error.
TimeoutStep(t) ==
    thr[t].pc = "rpc_wait" /\ thr'[t].pc = "idle" /\ hist'.outcome = "timeout"

\* C16: when an RPC wait times out, the error message lists exactly the
\* response names registered for that request, and afterwards no name is
\* mapped to the request and its response list is gone.
C16_TimeoutListsAndRemoves ==
    [][\A t \in Threads :
          TimeoutStep(t) =>
              LET o == thr[t].obj
                  u == thr[t].uuid IN
                /\ hist'.listed = ValidResponses(thr[t].frame)
                /\ \A n \in RespNames : rpcRequest'[o][n] # u
                /\ ~rpcResponse'[o][u].present]_vars

\* An RPC wait timed out and its message named the request's response.
C16_Witness ==
    /\ hist.outcome = "timeout"
    /\ hist.listed = {"Basic.QosOk"}
    /\ \A t \in Threads : thr[t].pc = "idle"

\* C17: an RPC timeout is fatal to the channel: when rpc_request has raised
\* the timeout error the channel is CLOSED.
C17_TimeoutClosesChannel ==
    [][\A t \in Threads :
          TimeoutStep(t) => chanState'[thr[t].obj] = "CLOSED"]_vars

\* ------------------------------------------------------------ channel errors
\* The step in which the reader task handles a Channel.Close for the OPEN
\* Channel o.
ServerCloseStep(o) ==
    /\ chanState[o] = "OPEN" /\ chanState'[o] = "CLOSED"
    /\ Len(chanExc'[o]) = Len(chanExc[o]) + 1

\* C18: a Channel.Close from the server for an OPEN channel is answered with
\* Channel.CloseOk, leaves the channel CLOSED with no inbound frame and no
\* consumer tag, and the error that later operations on the channel raise
\* (the first of its list) is the one carrying the server's reply.
C18_ServerCloseTerminal ==
    [][\A o \in Objs :
          ServerCloseStep(o) =>
              /\ hist'.closeOk
              /\ chanBuf'[o] = NoBuf
              /\ Head(chanExc'[o]) = ChanErr("Channel was closed by remote server")]_vars

\* The step in which a channel-level error happens on Channel a: the reader
\* task records a Channel.Close or a Basic.Return in its list, or an RPC wait
\* on it raises the timeout error.
ChannelErrorStep(a) ==
    \/ Len(chanExc'[a]) > Len(chanExc[a])
    \/ \E t \in Threads : TimeoutStep(t) /\ thr[t].obj = a

CheckStep == hist'.checks # hist.checks

\* The Channels a check_for_errors call closes: those in the Connection's
\* mapping and the one it was called on.
CheckCloses == MappedObjs \cup ({hist'.checked} \ {0})

RoundTripDone == call.op = "unmarshal"
\* Frames whose encoding carries the channel id and a payload.
Enveloped(f) ==
    \/ f.kind \in {"Method", "ContentHeader"}
    \/ f.kind = "ContentBody" /\ f.value # << >>

\* C24 as stated: for every frame f of the five kinds and every channel id
\* c, unmarshal(marshal(f, c)) returns (len(marshal(f, c)), c, f).
C24_RoundTrip ==
    RoundTripDone => call.res = Got(Len(call.data), call.channel, call.frame)

\* C24 as the code has it: unmarshal(marshal(f, c)) returns
\* (len(marshal(f, c)), c, f) for a Method, a ContentHeader and a
\* ContentBody that is not empty; for a ProtocolHeader and a Heartbeat it
\* returns (8, 0, f) whatever c is; for an empty ContentBody it raises
\* 'No frame size'.
C24_RoundTripEnveloped ==
    RoundTripDone =>
        IF Enveloped(call.frame)
        THEN call.res = Got(Len(call.data), call.channel, call.frame)
        ELSE IF call.frame.kind \in {"ProtocolHeader", "Heartbeat"}
        THEN Len(call.data) = 8 /\ call.res = Got(8, 0, call.frame)
        ELSE call.res = Fail("No frame size")
\* A ContentBody holding the value of the end marker came back from the
\* round trip on a channel other than 0.
C24_Witness ==
    /\ RoundTripDone
    /\ call.frame.kind = "ContentBody"
    /\ FRAME_END \in {call.frame.value[i] : i \in DOMAIN call.frame.value}
    /\ call.channel > 0
    /\ call.res = Got(Len(call.data), call.channel, call.frame)

\* C25: every marshalled frame other than the protocol header has 0xCE at
\* offset 7 + payload_size, and with that byte replaced unmarshal raises
\* 'Last byte error' and returns no frame.
C25_EndMarker ==
    /\ call.op = "marshal" /\ call.frame.kind # "ProtocolHeader"
        => call.data[FRAME_HEADER_SIZE + frame_parts(call.data).size + 1] = FRAME_END
    /\ call.op = "unmarshal_corrupt" => call.res = Fail("Last byte error")

\* ------------------------------------------------- socket write properties
\* Two bytes on the wire that come from the same call.
SameCall(a, b) == a.by = b.by /\ a.call = b.call

\* C21: the bytes of each write_frame / write_frames call are on the wire
\* contiguously and in order: a byte follows the previous byte of its own
\* call, or is the first byte of its call; no byte is sent twice; and a
\* call that returned without a socket error has all its bytes there.
C21_CallsContiguous ==
    LET wire == wr.wire IN
    /\ \A p \in DOMAIN wire :
          IF p > 1 /\ SameCall(wire[p - 1], wire[p])
          THEN wire[p].at = wire[p - 1].at + 1
          ELSE wire[p].at = 1
    /\ \A p \in DOMAIN wire : \A q \in DOMAIN wire : wire[p] = wire[q] => p = q
    /\ \A c \in hist.written :
          Cardinality({p \in DOMAIN wire : wire[p].by = c.by /\ wire[p].call = c.call})
              = c.len
\* A send took only part of what was left while the other thread waited
\* for the lock, and a batch of each of the two threads is on the wire whole.
C21_Witness ==
    /\ hist.contended
    /\ \A x \in Writers : \E c \in hist.written :
          c.by = x /\ c.len = Len(MarshalAll(WriteBatch(x), 0))

\* ------------------------------------------------------ publish properties
\* The least number of pieces of at most f bytes that hold n bytes.
Pieces(n, f) == CHOOSE k \in 0 .. n : k * f >= n /\ (k = 0 \/ (k - 1) * f < n)
\* The values of a sequence of body frames, joined.
RECURSIVE Concat(_)
Concat(fs) == IF fs = << >> THEN << >> ELSE Head(fs).value \o Concat(Tail(fs))
\* The ContentBody frames of what a publish wrote.
BodiesWritten == SubSeq(call.written, 3, Len(call.written))

\* C22: a publish of a body of N bytes with frame limit F >= 1 writes one
\* Basic.Publish, one ContentHeader with body_size = N, then exactly
\* ceil(N / F) ContentBody frames of at most F bytes each, whose values
\* joined in order are the body.
C22_PublishFrames ==
    call.op = "publish" /\ call.out = "returned" =>
        /\ Len(call.written) >= 2
        /\ call.written[1] = MethodFrame("Basic.Publish", 0)
        /\ call.written[2] = ContentHeaderFrame(Len(call.body))
        /\ Len(BodiesWritten) = Pieces(Len(call.body), call.F)
        /\ \A i \in DOMAIN BodiesWritten :
              /\ BodiesWritten[i].kind = "ContentBody"
              /\ Len(BodiesWritten[i].value) <= call.F
        /\ Concat(BodiesWritten) = call.body
\* A body of 5 bytes went out with limit 2 as pieces of 2, 2 and 1 bytes.
C22_Witness ==
    /\ call.op = "publish" /\ call.out = "returned"
    /\ Len(call.body) = 5 /\ call.F = 2
    /\ [i \in DOMAIN BodiesWritten |-> Len(BodiesWritten[i].value)] = << 2, 2, 1 >>

\* The step in which publish hands its frames to write_frames.
WroteFrames == call.written = << >> /\ call'.written # << >>
\* The request of the publishing thread is registered for both
\* confirmations.
ConfirmRegistered ==
    LET o == thr[1].obj
        u == thr[1].uuid IN
    /\ u # 0
    /\ rpcResponse[o][u].present
    /\ rpcRequest[o]["Basic.Ack"] = u /\ rpcRequest[o]["Basic.Nack"] = u
\* With confirms: registered before the frames are written, and the call
\* waits after the write.
RegistersBeforeWrite ==
    WroteFrames /\ call.confirming
        => ConfirmRegistered /\ thr'[1].pc = "pub_wait" /\ call'.out = "none"
\* Without confirms: no step of the call touches the Rpc object or waits.
NoConfirmNoRpc ==
    call' # call /\ call'.op = "publish" /\ ~call'.confirming
        => UNCHANGED rpcVars /\ thr'[1].pc \in {"idle", "pub_write"}
\* The step in which the wait of publish takes the stored confirmation.
TookConfirmation == call.result = "none" /\ call'.result # "none"
\* publish returns a value only with confirms, after the write, from a
\* stored confirmation, and the value is True exactly for Basic.Ack.
ValueFromConfirmation ==
    call'.out \in {"True", "False"} /\ call.out = "none"
        => /\ call.confirming /\ call.written # << >>
           /\ TookConfirmation
           /\ call'.result = Head(rpcResponse[thr[1].obj][thr[1].uuid].frames)
           /\ call'.result \in {"Basic.Ack", "Basic.Nack"}
           /\ call'.out = "True" <=> call'.result = "Basic.Ack"

\* C23 as stated: with confirms, publish registers for Basic.Ack /
\* Basic.Nack before it writes, waits for a confirmation and returns True
\* exactly when the confirmation is Basic.Ack; without confirms it
\* registers no request and does not wait.
C23_TrueIffAck ==
    [][/\ RegistersBeforeWrite
       /\ NoConfirmNoRpc
       /\ TookConfirmation => (call'.out = "True" <=> call'.result = "Basic.Ack")]_vars

\* C23 as the code has it: as above, but a confirmation that was taken
\* gives the value (True for Basic.Ack, False for Basic.Nack) unless
\* mandatory is set and the Channel's error list holds an error, which is
\* raised instead.
C23_TrueIffAckUnlessReturned ==
    [][/\ RegistersBeforeWrite
       /\ NoConfirmNoRpc
       /\ ValueFromConfirmation
       /\ TookConfirmation =>
             IF call.mandatory /\ chanExc[thr[1].obj] # << >>
             THEN call'.out = "raised"
             ELSE call'.out = "True" <=> call'.result = "Basic.Ack"]_vars
\* A publish with confirms returned True on a Basic.Ack.
C23_Witness ==
    /\ call.op = "publish" /\ call.confirming
    /\ call.result = "Basic.Ack" /\ call.out = "True"

\* ----------------------------------------------------- argument properties
\* The call was made with a routing key or body that is no string, or with
\* a reply_code, rpc_timeout or delivery_tag that is no integer.
BadArgs(c) ==
    \/ c.op = "publish" /\ (c.bodyKind # "str" \/ c.key # "str")
    \/ c.op \in {"ack", "close", "channel"} /\ c.arg # "int"

\* C26: a call rejected for such an argument raises InvalidArgument,
\* writes nothing, registers no request and leaves the state of the
\* channel and of the connection as it was.
C26_InvalidChangesNothing ==
    [][call' # call /\ BadArgs(call')
        => /\ call'.out = "invalid" /\ call'.written = << >>
           /\ UNCHANGED << connVars, mapVars, chanVars, rpcVars, ioVars, hbVars,
                           wr, rd, thr >>]_vars
\* basic.ack was rejected for its delivery_tag after a publish had been
\* written on the channel.
C26_Witness ==
    /\ call.op = "ack" /\ call.out = "invalid" /\ call.arg = "str"
    /\ call.n > 0 /\ hbWrites > 0

\* ------------------------------------------------------ reader properties
\* The bytes of the first k frames the server sent.
RECURSIVE StreamBytes(_)
StreamBytes(k) ==
    IF k = 0 THEN 0
    ELSE StreamBytes(k - 1)
         + Len(marshal(hist.stream[k].frame_in, hist.stream[k].channel_id))
\* The bytes the reader task has received.
ReceivedBytes == StreamBytes(Len(hist.stream)) - Len(rd.sockIn)
\* The frames whose bytes have all been received.
CompleteFrames ==
    CHOOSE k \in 0 .. Len(hist.stream) :
        /\ StreamBytes(k) <= ReceivedBytes
        /\ k < Len(hist.stream) => StreamBytes(k + 1) > ReceivedBytes

\* C28: whatever the fragments, the frames handed out so far are exactly
\* the frames whose bytes have all arrived, once each and in the order of
\* the wire: those of channel 0 to Channel0, those of an id in the mapping
\* to that Channel, the others to no Channel; the bytes of an incomplete
\* last frame are what is left in data_in.
C28_CompleteFramesInOrder ==
    ~hist.corrupt =>
        /\ Len(hist.dispatched) = CompleteFrames
        /\ \A i \in DOMAIN hist.dispatched :
              /\ hist.dispatched[i].channel_id = hist.stream[i].channel_id
              /\ hist.dispatched[i].frame_in = hist.stream[i].frame_in
              /\ hist.dispatched[i].to = Target(hist.stream[i].channel_id)
        /\ Len(rd.dataIn) = ReceivedBytes - StreamBytes(CompleteFrames)

\* C27: when the reader task has taken bytes from the socket and what is
\* left in data_in cannot be decoded, then either the frame is incomplete
\* and no error was recorded, or the data is corrupt (wrong end marker,
\* unknown frame type, unknown method index) and the connection's error
\* list holds an error.
C27_CorruptDataRecorded ==
    [][Len(rd'.sockIn) < Len(rd.sockIn) /\ rd'.dataIn # << >>
        => LET r == unmarshal(rd'.dataIn) IN
           /\ r.error = "Not all data received" => excLists' = excLists
           /\ r.error \in {"Last byte error", "Unknown frame type",
                            "Unknown method index"}
                 => excLists'[connExc] # << >>]_vars

\* ----------------------------------------------------- message properties
\* The inbound frames the consumer has taken from the inbound list.
Consumed == Len(hist.dispatched) - Len(chanBuf[1].inbound)
\* The ContentBody frames the server sent.
Pieces29 == {i \in DOMAIN hist.stream : hist.stream[i].frame_in.kind = "ContentBody"}
\* The inbound list holds the frames handed to the Channel and not yet
\* taken, in the order of their arrival.
InboundInOrder ==
    /\ Consumed >= 0
    /\ \A i \in DOMAIN chanBuf[1].inbound :
          chanBuf[1].inbound[i] = InboundOf(hist.dispatched[Consumed + i].frame_in)
\* The step that completes a Message.
MessageBuilt == thr[1].pc = "body" /\ thr'[1].pc = "build"

\* C29: for a Basic.Deliver, a ContentHeader announcing S and body pieces
\* summing to S, received at any pace, a Message is completed only once in
\* a call, when exactly the Basic.Deliver, the ContentHeader and every
\* body piece have been taken from the inbound list in the order of their
\* arrival, with a body of S bytes; for S = 0 exactly the two header frames
\* have been taken, whatever follows them.
C29_OneMessage ==
    [][MessageBuilt =>
        /\ hist.outcome = "none"
        /\ InboundInOrder
        /\ Len(hist.stream) >= 2
        /\ thr[1].bodySize = hist.stream[2].frame_in.size
        /\ thr[1].body = thr[1].bodySize
        /\ BodyBytesOf(hist.stream, Len(hist.stream)) = thr[1].bodySize
        /\ Consumed = 2 + Cardinality(Pieces29)]_vars
\* A Message of 3 bytes has been built from a piece of 1 byte followed by a
\* piece of 2 bytes.
C29_Witness ==
    /\ hist.outcome = "message"
    /\ Len(hist.stream) = 4
    /\ Len(hist.stream[3].frame_in.value) = 1
    /\ Len(hist.stream[4].frame_in.value) = 2

\* ------------------------------------------------------- tick properties
\* The first step of a tick of a running monitor, and the last step of a
\* tick.
TickStarts == hbPc = "idle" /\ hbPc' = "check"
TickEnds == hbPc \in {"reset", "dead"} /\ hbPc' = "idle"

Connected31 == \E t \in Threads : thr[t].pc = "copen_hs"
\* The step in which open() starts the monitor and returns.
OpenReturns == \E t \in Threads : thr[t].pc = "copen_wait" /\ thr'[t].pc = "idle"
                                     /\ hist'.opened = "ok"

\* C31: between the connect of open() and its write of the protocol header
\* no other frame is written to the socket (no tick sends a Heartbeat
\* then); open() returns only with the state OPEN, and that step, never one
\* with the state OPENING, is the one that starts the monitor.
C31_HeaderFirst ==
    [][/\ Connected31 => ~(TickStarts /\ hbRunning /\ hbWrites = 0)
       /\ OpenReturns => connState = "OPEN" /\ hbRunning' /\ hbTimer'
       /\ (~hbRunning /\ hbRunning') => OpenReturns /\ connState # "OPENING"]_vars

\* ------------------------------------------------ correlator table properties
\* C32: the step that ends the wait of an rpc_request (a response returned,
\* the timeout raised, or an error raised by the check in the wait loop)
\* leaves no name registered for the request's uuid and no response list
\* under it.
C32_NothingLeftRegistered ==
    [][\A t \in Threads :
          thr[t].pc = "rpc_wait" /\ thr'[t].pc = "idle"
          => /\ \A n \in RespNames : rpcRequest'[thr[t].obj][n] # thr[t].uuid
             /\ ~rpcResponse'[thr[t].obj][thr[t].uuid].present]_vars

\* C33: whatever the interleaving of Rpc.on_frame on the reader task with
\* remove() and the timeout handling on the caller's thread, on_frame never
\* ends with a KeyError, and the step in which it stores the frame and
\* returns True finds the request still registered: the name mapped to the
\* uuid and a response list under it.
C33_OnFrameNeverFails ==
    [][/\ rd'.returned # "KeyError"
       /\ (rd.pc \in {"append", "assign"} /\ rd'.returned = "True")
            => /\ rpcRequest[rd.obj][rd.name] = rd.uuid
               /\ rpcResponse[rd.obj][rd.uuid].present]_vars

\* C34: whatever the interleaving of the reader task with a consumer inside
\* _build_message, _build_message_headers or _build_message_body, no
\* pop(0) is made on an empty inbound list.
C34_NoPopOnEmpty == hist.outcome # "IndexError"

\* The step in which a tick declares the connection dead.
DeclaresDead == hbPc = "check" /\ hbPc' = "dead"

\* C35: the monitor declares the connection dead only if no read was
\* registered during the two intervals before the fatal tick: in
\* particular the tick before it has not zeroed a read that was registered
\* while it was running, after it had counted its miss.
C35_NoReadLost == [][DeclaresDead => ~hist.lostRead]_vars
\* ------------------------------------------------------ Basic.get properties
\* A caller is inside the with block of get() on Channel o.
GetInProgress(o) == \E t \in Threads : thr[t].pc \in GetPcs /\ thr[t].obj = o
\* The caller has registered the request of its get() on Channel o.
GetRegistered(o) ==
    \E t \in Threads : thr[t].pc \in GetPcs \ {"get_reg"} /\ thr[t].obj = o

\* C36: a caller inside the with block of get() holds the Channel's lock
\* and the lock of the Channel's Rpc, so that neither message reassembly
\* nor another RPC runs on the Channel meanwhile.
C36_GetHoldsBothLocks ==
    \A t \in Threads :
        thr[t].pc \in GetPcs
            => HoldsChannelLock(t, thr[t].obj) /\ rpcLock[thr[t].obj] = t
\* The frame names the get() is to take.
Names37 == {"Basic.GetOk", "Basic.GetEmpty", "ContentHeader", "ContentBody"}
\* The step in which get() returns or raises.
GetEnds == \E t \in Threads : thr[t].pc \in GetPcs /\ thr'[t].pc = "idle"
\* The reader task hands frame f to Channel o and the frame is stored for
\* the request of uuid u.
StoredFor(o, f, u) ==
    /\ rpcResponse'[o][u].frames = Append(rpcResponse[o][u].frames, f)
    /\ chanBuf'[o].inbound = chanBuf[o].inbound

\* C37 as claimed: from the call of get() on, every Basic.GetOk,
\* Basic.GetEmpty, ContentHeader and ContentBody frame that arrives for the
\* Channel is stored for the get's request and the inbound list is left
\* alone.
C37_GetTakesFrames ==
    [][\A f \in GetFrames : \A t \in Threads :
          (f.name \in Names37 /\ ChanOnFrame(1, f)
           /\ thr[t].pc \in GetPcs /\ thr[t].obj = 1)
              => thr[t].uuid # 0 /\ StoredFor(1, f, thr[t].uuid)]_vars

\* C37, amended: once get() has registered its request, every Basic.GetOk,
\* Basic.GetEmpty, ContentHeader and ContentBody frame that arrives for the
\* Channel is stored for that request and the inbound list is left alone;
\* the step in which get() returns or raises leaves none of the four names
\* registered and no response list; with no get() registered a
\* ContentHeader or ContentBody is appended to the inbound list.
C37_RegisteredGetTakesFrames ==
    [][/\ \A f \in GetFrames : \A t \in Threads :
            (f.name \in Names37 /\ ChanOnFrame(1, f)
             /\ thr[t].pc \in GetPcs \ {"get_reg"} /\ thr[t].obj = 1)
                => StoredFor(1, f, thr[t].uuid)
       /\ GetEnds => /\ \A n \in Names37 : rpcRequest'[1][n] = 0
                     /\ \A u \in Uuids : ~rpcResponse'[1][u].present
       /\ \A f \in GetFrames :
            (f.name \in {"ContentHeader", "ContentBody"} /\ ChanOnFrame(1, f)
             /\ ~GetInProgress(1))
                => /\ chanBuf'[1].inbound = Append(chanBuf[1].inbound, f)
                   /\ rpcResponse' = rpcResponse]_vars
\* A get() has taken a Basic.GetOk, a ContentHeader and a first body piece
\* from its request, the last frame that arrived was stored for it, and the
\* inbound list is empty.
C37_Witness ==
    \E t \in Threads : /\ thr[t].pc = "get_body" /\ thr[t].body > 0
                        /\ hist.taken /\ hist.frameIn = "ContentBody"
                        /\ chanBuf[thr[t].obj].inbound = << >>
\* A get() has returned a message and a ContentBody that arrived later is
\* in the inbound list.
C37_WitnessLater ==
    /\ hist.outcome = "message" /\ ~hist.taken /\ hist.frameIn = "ContentBody"
    /\ chanBuf[1].inbound # << >>
    /\ \A t \in Threads : thr[t].pc = "idle"
\* ------------------------------------------------- Channel.open properties
\* The step in which open() raises.
ChanOpenRaises ==
    \E t \in Threads : /\ thr[t].pc \in {"chopen_written", "chopen_wait"}
                        /\ thr'[t].pc = "idle"
                        /\ hist'.outcome \in {"error", "timeout"}

\* C38: a Channel is OPEN only if a Channel.OpenOk was handed to it after
\* its latest open() wrote Channel.Open, and the step in which open() raises
\* (an error of the check in the wait loop, or the timeout) leaves the
\* Channel in a state other than OPEN.
C38_OpenOnlyAfterOpenOk ==
    [][/\ \A o \in Objs : chanState'[o] = "OPEN" => o \in hist'.openOk
       /\ ChanOpenRaises => \A t \in Threads :
              thr[t].pc = "chopen_wait" => chanState'[thr[t].obj] # "OPEN"]_vars
\* open() has opened the Channel while another Channel.OpenOk, the answer to
\* an earlier open() that raised, is still on its way.
C38_Witness ==
    /\ chanState[1] = "OPEN" /\ hist.outcome = "ok"
    /\ \A t \in Threads : thr[t].pc = "idle"
    /\ netIn # << >>
\* ---------------------------------------------- returned message properties
\* The step is a call of check_for_errors on Channel o.
CheckOn(o) == hist'.checks # hist.checks /\ hist'.checked = o
\* The step is the check of an operation on Channel o (a frame to write, the
\* wait of a request) that raises.
OperationRaises(o) ==
    \/ ChanWriteFrameChanError(1, o)
    \/ \E t \in Threads : /\ thr[t].pc = "rpc_wait" /\ thr[t].obj = o
                           /\ thr'[t].pc = "idle" /\ hist'.outcome = "error"

\* C39: a Basic.Return is appended to the Channel's list as a message
\* error; on an OPEN Channel of a connection without error a check raises
\* the first message error of the list and removes it, a check that finds
\* the list empty raises nothing, and an error leaves the list only in
\* the step of the one check or operation that raises it.
C39_ReturnRaisedOnce ==
    [][\A o \in {1} :
        /\ BasicReturn(o) => chanExc'[o] = Append(chanExc[o], MsgErr("Message not delivered"))
        /\ (chanState[o] = "OPEN" /\ ConnCheckPasses /\ CheckOn(o))
              => IF chanExc[o] = << >>
                 THEN hist'.raised = NoErr /\ chanExc'[o] = << >>
                 ELSE /\ hist'.raised = Head(chanExc[o])
                      /\ chanExc'[o] = Tail(chanExc[o])
        /\ (chanState[o] = "OPEN" /\ OperationRaises(o) /\ chanExc[o] # << >>)
              => chanExc'[o] = Tail(chanExc[o])
        /\ (chanState[o] = "OPEN" /\ Len(chanExc'[o]) < Len(chanExc[o]))
              => CheckOn(o) \/ OperationRaises(o)]_vars
\* A check has raised the message error of a Basic.Return on the OPEN
\* Channel and the list is empty again.
C39_Witness ==
    /\ hist.raised = MsgErr("Message not delivered") /\ hist.checked = 1
    /\ chanState[1] = "OPEN" /\ chanExc[1] = << >>
\* ---------------------------------------------------- delivery order properties
\* The k-th frame handed to the Channel, as the inbound list holds it.
Arrived(k) == InboundOf(hist.dispatched[k].frame_in)
\* The step in which _build_message_headers returns a Basic.Deliver and a
\* ContentHeader, and the step in which _build_message returns None having
\* taken frames.
HeadersTaken == thr[1].pc = "build" /\ thr'[1].pc = "body"
FramesDiscarded ==
    thr[1].pc = "build" /\ thr'[1].pc = "build_none" /\ chanBuf' # chanBuf

\* C40: the inbound list holds the frames in the order of their arrival
\* and a frame is taken from its head only, so never twice; a message is
\* started only by taking a Basic.Deliver and the ContentHeader that
\* arrived right after it, and yielded only after that, before the next one
\* is started; a head that is no Basic.Deliver, or a Basic.Deliver with the
\* frame after it when that is no ContentHeader, is dropped and no message
\* started.
C40_DeliveriesInOrder ==
    [][/\ InboundInOrder /\ InboundInOrder'
       /\ Consumed' >= Consumed
       /\ HeadersTaken =>
            /\ Arrived(Consumed + 1) = Deliver
            /\ Arrived(Consumed + 2) = Header(thr'[1].bodySize)
            /\ Consumed' = Consumed + 2
       /\ MessageBuilt => Consumed' = Consumed /\ hist'.outcome = "message"
       /\ hist'.outcome = "message" /\ hist.outcome # "message" => MessageBuilt
       /\ FramesDiscarded =>
            IF Arrived(Consumed + 1) # Deliver
            THEN Consumed' = Consumed + 1
            ELSE Arrived(Consumed + 2).name # "ContentHeader"
                 /\ Consumed' = Consumed + 2]_vars
\* A ContentBody that arrived first was dropped, and a message was built
\* from the Basic.Deliver and the ContentHeader that followed it.
C40_Witness ==
    /\ hist.outcome = "message"
    /\ Len(hist.dispatched) = 3 /\ Consumed = 3
    /\ Arrived(1).name = "ContentBody"
    /\ Arrived(2) = Deliver /\ Arrived(3) = Header(0)
============================================================================
